---------------------------- MODULE Spec2Model ----------------------------
(***************************************************************************)
(* A model of doks-rs: the channel stream bridge (utils/streams.rs), the   *)
(* batching operator (utils/mod.rs), the file system and git repository    *)
(* document sources (sources/fs.rs, sources/gh.rs) and the tantivy search  *)
(* engine facade (search/tantivy_impl.rs), and the Index command of the    *)
(* command line (cli/mod.rs).                                              *)
(*                                                                         *)
(* Each component has its own specification (SpecBridge, SpecBatched,      *)
(* SpecFs, SpecGh, SpecIndex, SpecEngine, SpecDriver); the variables of    *)
(* the components a                                                        *)
(* specification does not run stay at their idle values.                   *)
(***************************************************************************)
EXTENDS Integers, Sequences, FiniteSets, TLC

VARIABLES
    \* ---- channel_stream: the channel, the two tasks, the consumer
    chan,       \* items buffered in the mpsc channel, oldest first
    rxOpen,     \* the ReceiverStream has not been dropped
    futState,   \* the producer future: "running" | "ok" | "err" | "panic"
    futErr,     \* the error the producer future returned (an error name)
    mgr,        \* the manager task: "await" | "send" | "done"
    observed,   \* every item the consumer has received, in order
    ended,      \* the consumer has seen the end of the sequence (None)
    \* ---- a scripted producer (the closure given to channel_stream)
    script,     \* the Ok values the producer sends, in order
    outcome,    \* how the producer ends after its sends: "ok" | "err" | "panic"
    sent,       \* how many sends of the script have completed
    \* ---- StreamUtils::batched
    bsrc,       \* the items of the source stream, in order
    bsize,      \* the batch size
    bpos,       \* how many source items the task has pulled
    batch,      \* the task's accumulating Vec
    btask,      \* the task: "pull" | "send" | "flush" | "done"
    bchan,      \* batches buffered in the task's channel
    brxOpen,    \* the returned ReceiverStream has not been dropped
    groups,     \* every batch the consumer has received, in order
    bended,     \* the consumer has seen the end of the batched stream
    \* ---- FileSystemDocumentSourceStream
    fsTree,     \* the directory entries on disk
    fsSourceId, \* source_id
    fsPaths,    \* paths: the roots, in order
    fsInclude,  \* include: a set of patterns
    fsExclude,  \* exclude: a set of patterns
    fsRoot,     \* index in paths of the root being walked (0: none yet)
    fsStack,    \* the walk: per open directory, its entries not yet met
    fsYield,    \* the item yielded and not yet taken by the consumer
    fsState,    \* the generator: "walking" | "failed" | "done"
    fsOut,      \* every item the consumer has taken, in order
    \* ---- GithubSource
    ghList,     \* the items of lister.list(), in order
    ghInclude,  \* the configured include patterns
    ghExclude,  \* the configured exclude patterns
    gpc,        \* the producer closure: "idle" | "list" | "clone" | "walk" | "done"
    ghIdx,      \* how many lister items the closure has taken
    tmpdirs,    \* the temporary clone directories that exist, by repository index
    cloneAttempts, \* per lister item, how many times its clone was started
    \* ---- TantivySearchEngine
    batches,    \* per index call, the documents it was given
    ipc,        \* per index call: "idle" | "add" | "reading" | "write" |
                \*   "blocked" | "commit" | "committed" | "commitfailed"
                \*   (the closure has returned, index has not) | "done"
                \*   (index returned Ok) | "failed" (index returned Err)
    ipos,       \* per index call, how many documents it has added
    readers,    \* the index calls holding the writer's RwLock for reading
    writers,    \* the index calls holding the writer's RwLock for writing
    pending,    \* the documents added and not yet committed (a bag)
    committed,  \* the documents committed to the index (a bag)
    snapshot,   \* the documents the reader's current searcher sees (a bag)
    hadCommitted, \* the index calls that had committed when the reader last reloaded
    query,      \* the query of the search
    searcher,   \* the documents the search's searcher sees (a bag)
    visible,    \* the index calls that had committed before the reload the search sees
    spc,        \* the search: "off" | "idle" | "rejected" (search returned Err) |
                \*   the task: "collect" | "send" | "done" | "failed"
    topDocs,    \* the ranked documents the task has still to send
    schan,      \* results buffered in the search's channel
    srxOpen,    \* the result stream has not been dropped
    results,    \* every result the consumer has received, in order
    sended,     \* the consumer has seen the end of the result stream
    \* ---- cli_main, DoksCommand::Index
    dsources,   \* config.sources: per source, the items its fetch yields
    dbuild,     \* config.sources: per source, "ok" or the error of its try_into
    dstartup,   \* "ok", or what fails before the loop: the read of the config
                \*   file, its parse, or the engine's try_into
    dsrc,       \* the index of the source of the current iteration (0: none yet)
    dpc,        \* cli_main: "off" | "start" | "next" | "pull" | "collect" | "index" |
                \*   "done" | "failed"
    derr,       \* the error cli_main returned
    fetched,    \* the sources whose fetch was called, in order
    indexed,    \* the index calls made: [src, docs], in order
    inflight,   \* the index calls started and not yet returned
    \* ---- GithubStarsLister::list
    lserver,    \* the server's answers: answer n follows the cursor of page n-1
    lpc,        \* the closure: "off" | "request" | "emit" | "done"
    lreq,       \* the cursor of every request sent, in order
    lpage,      \* `page`: the answer of the current iteration
    lnode,      \* how many nodes of `page` the for loop has sent
    lpageInfo,  \* `page_info`: <<>> (None) or <<PageInfo>> (Some)
    lsent       \* every item the closure has sent, in order

bridgeVars == <<chan, rxOpen, futState, futErr, mgr, observed, ended>>
scriptVars == <<script, outcome, sent>>
batchVars == <<bsrc, bsize, bpos, batch, btask, bchan, brxOpen, groups, bended>>
fsVars == <<fsTree, fsSourceId, fsPaths, fsInclude, fsExclude, fsRoot, fsStack,
            fsYield, fsState, fsOut>>
ghVars == <<ghList, ghInclude, ghExclude, gpc, ghIdx, tmpdirs, cloneAttempts>>
indexVars == <<batches, ipc, ipos, readers, writers, pending, committed,
               snapshot, hadCommitted>>
searchVars == <<query, searcher, visible, spc, topDocs, schan, srxOpen, results,
                sended>>
driverVars == <<dsources, dbuild, dstartup, dsrc, dpc, derr, fetched, indexed, inflight>>
listerVars == <<lserver, lpc, lreq, lpage, lnode, lpageInfo, lsent>>
vars == <<bridgeVars, scriptVars, batchVars, fsVars, ghVars, indexVars, searchVars,
          driverVars, listerVars>>

----------------------------------------------------------------------------
(* Items of a Stream<Item = anyhow::Result<R>>.                            *)
Ok(v) == [ok |-> v]
Err(e) == [err |-> e]
IsOk(item) == DOMAIN item = {"ok"}
IsErr(item) == DOMAIN item = {"err"}

(* Bounds of the scripted producer.                                        *)
MaxItems == 3
Values == {1, 2}

SeqsUpTo(S, n) == UNION {[1..k -> S] : k \in 0..n}

----------------------------------------------------------------------------
(* channel_stream (utils/streams.rs)                                       *)

(* tokio::sync::mpsc::channel(1)                                           *)
ChannelCapacity == 1

(* Both senders are gone: stream_tx is owned by the producer future and    *)
(* manager_tx by the manager task; each is dropped when its owner ends.    *)
SendersDropped == futState # "running" /\ mgr = "done"

InitBridgeVars ==
    /\ chan = <<>>
    /\ rxOpen = TRUE
    /\ futState = "running"
    /\ futErr = "none"
    /\ mgr = "await"
    /\ observed = <<>>
    /\ ended = FALSE

(* tx.send(item).await succeeding: the channel is open and has room.       *)
SendEnabledWhenClosed == Len(chan) < ChannelCapacity
SendEnabledUnbounded == rxOpen
SendEnabled == rxOpen /\ Len(chan) < ChannelCapacity

(* The manager task's match on tokio::spawn(fut).await.                    *)
ManagerErrorOnlyPanic(state, err) ==
    IF state = "panic" THEN "Stream panicked" ELSE "none"
ManagerErrorIgnoresPanic(state, err) ==
    CASE state = "ok" -> "none"
      [] state = "err" -> err
      [] state = "panic" -> "none"
ManagerErrorAlways(state, err) ==
    CASE state = "ok" -> "Stream completed"
      [] state = "err" -> err
      [] state = "panic" -> "Stream panicked"
ManagerError(state, err) ==
    CASE state = "ok" -> "none"
      [] state = "err" -> err
      [] state = "panic" -> "Stream panicked"

ManagerJoin ==
    /\ mgr = "await"
    /\ futState # "running"
    /\ LET e == ManagerError(futState, futErr) IN
       /\ futErr' = e
       /\ mgr' = IF e = "none" THEN "done" ELSE "send"
    /\ UNCHANGED <<chan, rxOpen, futState, observed, ended>>

(* manager_tx.send(Err(err)).await: waits for room; fails when closed.     *)
ManagerSend ==
    /\ mgr = "send"
    /\ \/ /\ SendEnabled
          /\ chan' = Append(chan, Err(futErr))
       \/ /\ ~rxOpen
          /\ chan' = chan
    /\ mgr' = "done"
    /\ UNCHANGED <<rxOpen, futState, futErr, observed, ended>>

(* The consumer polls the ReceiverStream: the oldest buffered item.        *)
ConsumerRecv ==
    /\ rxOpen /\ ~ended
    /\ chan # <<>>
    /\ observed' = Append(observed, Head(chan))
    /\ chan' = Tail(chan)
    /\ UNCHANGED <<rxOpen, futState, futErr, mgr, ended>>

(* The poll returns None: the buffer is empty and every sender is gone.    *)
ConsumerEnd ==
    /\ rxOpen /\ ~ended
    /\ chan = <<>>
    /\ SendersDropped
    /\ ended' = TRUE
    /\ UNCHANGED <<chan, rxOpen, futState, futErr, mgr, observed>>

(* The consumer drops the stream: the channel closes, its buffer is freed. *)
ConsumerDrop ==
    /\ rxOpen /\ ~ended
    /\ rxOpen' = FALSE
    /\ chan' = <<>>
    /\ UNCHANGED <<futState, futErr, mgr, observed, ended>>

IdleBridge ==
    /\ chan = <<>>
    /\ rxOpen = FALSE
    /\ futState = "ok"
    /\ futErr = "none"
    /\ mgr = "done"
    /\ observed = <<>>
    /\ ended = FALSE

----------------------------------------------------------------------------
(* The producer of the tests of utils/streams.rs: it sends its values one  *)
(* by one with `tx.send(Ok(i)).await?` and then returns, fails or panics.  *)

InitScript ==
    /\ script \in SeqsUpTo(Values, MaxItems)
    /\ outcome \in {"ok", "err", "panic"}
    /\ sent = 0

IdleScript ==
    /\ script = <<>>
    /\ outcome = "ok"
    /\ sent = 0

ProducerSend ==
    /\ futState = "running"
    /\ sent < Len(script)
    /\ \/ /\ SendEnabled
          /\ chan' = Append(chan, Ok(script[sent + 1]))
          /\ sent' = sent + 1
          /\ UNCHANGED <<futState, futErr>>
       \/ /\ ~rxOpen
          /\ futState' = "err"
          /\ futErr' = "SendError"
          /\ UNCHANGED <<chan, sent>>
    /\ UNCHANGED <<rxOpen, mgr, observed, ended, script, outcome>>

ProducerReturn ==
    /\ futState = "running"
    /\ sent = Len(script)
    /\ futState' = outcome
    /\ futErr' = IF outcome = "err" THEN "Deliberate failure!" ELSE "none"
    /\ UNCHANGED <<chan, rxOpen, mgr, observed, ended, scriptVars>>

----------------------------------------------------------------------------
(* StreamUtils::batched (utils/mod.rs)                                     *)

MaxSrcLen == 4
MaxBatchSize == 3
BatchItems == {Ok(1), Ok(2), Err("io")}

(* tokio::sync::mpsc::channel(1)                                           *)
BatchChannelCapacity == 1

InitBatched ==
    /\ bsrc \in SeqsUpTo(BatchItems, MaxSrcLen)
    /\ bsize \in 1..MaxBatchSize
    /\ bpos = 0
    /\ batch = <<>>
    /\ btask = "pull"
    /\ bchan = <<>>
    /\ brxOpen = TRUE
    /\ groups = <<>>
    /\ bended = FALSE

IdleBatched ==
    /\ bsrc = <<>>
    /\ bsize = 1
    /\ bpos = 0
    /\ batch = <<>>
    /\ btask = "done"
    /\ bchan = <<>>
    /\ brxOpen = FALSE
    /\ groups = <<>>
    /\ bended = FALSE

(* stream.next() yields an item: push it; a full batch is sent next.       *)
BatchPull ==
    /\ btask = "pull"
    /\ bpos < Len(bsrc)
    /\ batch' = Append(batch, bsrc[bpos + 1])
    /\ bpos' = bpos + 1
    /\ btask' = IF Len(batch') >= bsize THEN "send" ELSE "pull"
    /\ UNCHANGED <<bsrc, bsize, bchan, brxOpen, groups, bended>>

(* tx.send(mem::take(&mut batch)).await: waits for room; when the channel  *)
(* is closed the batch is lost and the loop goes on.                       *)
BatchSendNoWait ==
    /\ btask = "send"
    /\ bchan' = IF brxOpen THEN Append(bchan, batch) ELSE bchan
    /\ batch' = <<>>
    /\ btask' = "pull"
    /\ UNCHANGED <<bsrc, bsize, bpos, brxOpen, groups, bended>>
BatchSendStopsWhenClosed ==
    /\ btask = "send"
    /\ \/ /\ brxOpen /\ Len(bchan) < BatchChannelCapacity
          /\ bchan' = Append(bchan, batch)
          /\ btask' = "pull"
       \/ /\ ~brxOpen
          /\ bchan' = bchan
          /\ btask' = "done"
    /\ batch' = <<>>
    /\ UNCHANGED <<bsrc, bsize, bpos, brxOpen, groups, bended>>
BatchSend ==
    /\ btask = "send"
    /\ \/ /\ brxOpen /\ Len(bchan) < BatchChannelCapacity
          /\ bchan' = Append(bchan, batch)
       \/ /\ ~brxOpen
          /\ bchan' = bchan
    /\ batch' = <<>>
    /\ btask' = "pull"
    /\ UNCHANGED <<bsrc, bsize, bpos, brxOpen, groups, bended>>

(* stream.next() yields None: the loop ends; a non-empty rest is flushed.  *)
BatchSourceEndNoFlush ==
    /\ btask = "pull"
    /\ bpos = Len(bsrc)
    /\ btask' = "done"
    /\ UNCHANGED <<bsrc, bsize, bpos, batch, bchan, brxOpen, groups, bended>>
BatchSourceEnd ==
    /\ btask = "pull"
    /\ bpos = Len(bsrc)
    /\ btask' = IF batch # <<>> THEN "flush" ELSE "done"
    /\ UNCHANGED <<bsrc, bsize, bpos, batch, bchan, brxOpen, groups, bended>>

(* tx.send(batch).await of the rest, then the task ends and drops tx.      *)
BatchFlush ==
    /\ btask = "flush"
    /\ \/ /\ brxOpen /\ Len(bchan) < BatchChannelCapacity
          /\ bchan' = Append(bchan, batch)
       \/ /\ ~brxOpen
          /\ bchan' = bchan
    /\ batch' = <<>>
    /\ btask' = "done"
    /\ UNCHANGED <<bsrc, bsize, bpos, brxOpen, groups, bended>>

BatchConsumerRecv ==
    /\ brxOpen /\ ~bended
    /\ bchan # <<>>
    /\ groups' = Append(groups, Head(bchan))
    /\ bchan' = Tail(bchan)
    /\ UNCHANGED <<bsrc, bsize, bpos, batch, btask, brxOpen, bended>>

BatchConsumerEnd ==
    /\ brxOpen /\ ~bended
    /\ bchan = <<>>
    /\ btask = "done"
    /\ bended' = TRUE
    /\ UNCHANGED <<bsrc, bsize, bpos, batch, btask, bchan, brxOpen, groups>>

BatchConsumerDrop ==
    /\ brxOpen /\ ~bended
    /\ brxOpen' = FALSE
    /\ bchan' = <<>>
    /\ UNCHANGED <<bsrc, bsize, bpos, batch, btask, groups, bended>>

----------------------------------------------------------------------------
(* FileSystemDocumentSource (sources/fs.rs)                                *)
(*                                                                         *)
(* A path is the sequence of its components.  A directory entry is a       *)
(* record [path, kind, text]: kind is "file" or "dir", text is the file's  *)
(* content, "" for a directory, and InvalidUtf8 for a file whose bytes are *)
(* not valid UTF-8.                                                        *)

InvalidUtf8 == "<invalid utf-8>"

File(path, text) == [path |-> path, kind |-> "file", text |-> text]
Dir(path) == [path |-> path, kind |-> "dir", text |-> ""]

(* Regex::is_match searches the path string for the pattern.  A pattern is *)
(* modelled by the path components that contain a match of it.            *)
Pattern(name, hits) == [name |-> name, hits |-> hits]
RegexIsMatch(re, path) == \E i \in 1..Len(path) : path[i] \in re.hits

(* fs.rs 52-58: every include matches and no exclude matches.              *)
Matching(include, exclude, path) ==
    /\ \A r \in include : RegexIsMatch(r, path)
    /\ \A r \in exclude : ~RegexIsMatch(r, path)

(* tokio::fs::read_to_string: fails on a directory (EISDIR) and on bytes   *)
(* that are not UTF-8.                                                     *)
ReadToString(entry) ==
    IF entry.kind = "dir" THEN Err("Is a directory")
    ELSE IF entry.text = InvalidUtf8 THEN Err("stream did not contain valid UTF-8")
    ELSE Ok(entry.text)

(* file.file_name(): the last component.                                   *)
FileName(path) == path[Len(path)]

(* fs.rs 66-73                                                             *)
Document(sourceId, entry, content) ==
    [id |-> entry.path,
     source |-> sourceId,
     title |-> FileName(entry.path),
     link |-> entry.path,
     content |-> content,
     metadata |-> {}]

(* The body of the loop for one entry of the walk (fs.rs 49-73): nothing   *)
(* when the path is filtered out, else the Document or the read error.     *)
EntryItems(sourceId, include, exclude, entry) ==
    IF ~Matching(include, exclude, entry.path) THEN <<>>
    ELSE LET content == ReadToString(entry) IN
         IF IsErr(content) THEN <<content>>
         ELSE <<Ok(Document(sourceId, entry, content.ok))>>

(* async_walkdir: WalkDir::new(root) yields every entry below root, files  *)
(* and directories alike, a directory before its own entries, and reads a  *)
(* directory it has met before it goes on with that directory's siblings.  *)
IsParent(dir, path) ==
    /\ Len(path) = Len(dir) + 1
    /\ SubSeq(path, 1, Len(dir)) = dir
Children(tree, dir) == {e \in tree : IsParent(dir, e.path)}

RECURSIVE PopEmpty(_)
PopEmpty(stack) ==
    IF stack # <<>> /\ stack[Len(stack)] = {}
    THEN PopEmpty(SubSeq(stack, 1, Len(stack) - 1))
    ELSE stack

(* The walk's stack after it has yielded entry e of its top directory.     *)
WalkPast(tree, stack, e) ==
    LET n == Len(stack)
        rest == [stack EXCEPT ![n] = stack[n] \ {e}] IN
    PopEmpty(IF e.kind = "dir" THEN Append(rest, Children(tree, e.path)) ELSE rest)

(* A root can be walked when it is a directory on disk; the top directory  *)
(* (one component) always is.                                              *)
RootExists(tree, root) == Len(root) = 1 \/ Dir(root) \in tree

(* The trees, roots and filters the walk is checked on.                    *)
RootR == <<"r">>
EntryA == File(<<"r", "a.txt">>, "content a")
EntryB == File(<<"r", "b.md">>, "content b")
EntryN == Dir(<<"r", "nested">>)
EntryC == File(<<"r", "nested", "c.txt">>, "content c")
EntryX == File(<<"r", "x.bin">>, InvalidUtf8)
Entries == {EntryA, EntryB, EntryN, EntryC, EntryX}
Trees == {t \in SUBSET Entries : EntryC \in t => EntryN \in t}
PatTxt == Pattern(".*.txt", {"a.txt", "c.txt"})
PatNested == Pattern("nested", {"nested"})
PatMd == Pattern("md$", {"b.md"})
Patterns == {PatTxt, PatNested}
RootLists == {<<RootR>>, <<RootR, RootR>>, <<RootR, EntryN.path>>}

InitFs ==
    /\ fsTree \in Trees
    /\ fsSourceId = "source1"
    /\ fsPaths \in RootLists
    /\ fsInclude \in SUBSET Patterns
    /\ fsExclude \in SUBSET Patterns
    /\ fsRoot = 0
    /\ fsStack = <<>>
    /\ fsYield = <<>>
    /\ fsState = "walking"
    /\ fsOut = <<>>

IdleFs ==
    /\ fsTree = {}
    /\ fsSourceId = ""
    /\ fsPaths = <<>>
    /\ fsInclude = {}
    /\ fsExclude = {}
    /\ fsRoot = 0
    /\ fsStack = <<>>
    /\ fsYield = <<>>
    /\ fsState = "done"
    /\ fsOut = <<>>

(* The generator runs only while the consumer polls it for the next item.  *)
FsPolled == fsState = "walking" /\ fsYield = <<>>

(* `for path in paths`: the walk of the next root starts.                  *)
FsNextRoot ==
    /\ FsPolled
    /\ fsStack = <<>>
    /\ fsRoot < Len(fsPaths)
    /\ fsRoot' = fsRoot + 1
    /\ IF RootExists(fsTree, fsPaths[fsRoot + 1])
       THEN /\ fsStack' = PopEmpty(<<Children(fsTree, fsPaths[fsRoot + 1])>>)
            /\ UNCHANGED <<fsYield, fsState>>
       ELSE /\ fsYield' = <<Err("No such file or directory")>>
            /\ fsState' = "failed"
            /\ UNCHANGED fsStack
    /\ UNCHANGED <<fsTree, fsSourceId, fsPaths, fsInclude, fsExclude, fsOut>>

(* `for await file in WalkDir::new(path)`: the walk yields its next entry  *)
(* and the loop body runs on it.  An error ends the try_stream!.           *)
FsWalkEntryGoesOn ==
    /\ FsPolled
    /\ fsStack # <<>>
    /\ \E e \in fsStack[Len(fsStack)] :
          /\ fsStack' = WalkPast(fsTree, fsStack, e)
          /\ fsYield' = EntryItems(fsSourceId, fsInclude, fsExclude, e)
          /\ fsState' = "walking"
    /\ UNCHANGED <<fsTree, fsSourceId, fsPaths, fsInclude, fsExclude, fsRoot, fsOut>>
FsWalkEntry ==
    /\ FsPolled
    /\ fsStack # <<>>
    /\ \E e \in fsStack[Len(fsStack)] :
          LET items == EntryItems(fsSourceId, fsInclude, fsExclude, e) IN
          /\ fsStack' = WalkPast(fsTree, fsStack, e)
          /\ fsYield' = items
          /\ fsState' = IF items # <<>> /\ IsErr(items[1]) THEN "failed"
                        ELSE "walking"
    /\ UNCHANGED <<fsTree, fsSourceId, fsPaths, fsInclude, fsExclude, fsRoot, fsOut>>

(* Every root has been walked: the stream ends.                            *)
FsEnd ==
    /\ FsPolled
    /\ fsStack = <<>>
    /\ fsRoot = Len(fsPaths)
    /\ fsState' = "done"
    /\ UNCHANGED <<fsTree, fsSourceId, fsPaths, fsInclude, fsExclude, fsRoot,
                   fsStack, fsYield, fsOut>>

(* The consumer (`collect` in first_test) takes the yielded item.          *)
FsCollect ==
    /\ fsYield # <<>>
    /\ fsOut' = Append(fsOut, fsYield[1])
    /\ fsYield' = <<>>
    /\ UNCHANGED <<fsTree, fsSourceId, fsPaths, fsInclude, fsExclude, fsRoot,
                   fsStack, fsState>>

(* The stream has returned None to its consumer.                           *)
FsTerminated == fsState # "walking" /\ fsYield = <<>>

----------------------------------------------------------------------------
(* GithubSource (sources/gh.rs)                                            *)

MaxRepos == 2

(* What a repository descriptor's clone_url leads to: whether the clone    *)
(* succeeds, and the entries of the work tree once .git is removed.        *)
Remote(url) ==
    CASE url = "docs" ->
           [cloneOk |-> TRUE,
            files |-> {File(<<"a.txt">>, "content a"), File(<<"b.md">>, "content b")}]
      [] url = "binary" ->
           [cloneOk |-> TRUE, files |-> {File(<<"x.bin">>, InvalidUtf8)}]
      [] url = "unreachable" ->
           [cloneOk |-> FALSE, files |-> {}]

RepositoryInfo(url) == [name |-> url, clone_url |-> url]

ListerItems ==
    {Ok(RepositoryInfo("docs")), Ok(RepositoryInfo("binary")),
     Ok(RepositoryInfo("unreachable")), Err("lister failed")}

(* TempDir::new("cloned"): a fresh directory per repository.               *)
TmpRoot(i) == <<"cloned" \o ToString(i)>>

(* The clone's work tree below the temporary directory.                    *)
Relocate(files, root) == {[e EXCEPT !.path = root \o e.path] : e \in files}

(* gh.rs 29-31: the filters the closure captures.                          *)
FetchInclude(include, exclude) == include
FetchExclude(include, exclude) == include

InitGh ==
    /\ ghList \in SeqsUpTo(ListerItems, MaxRepos)
    /\ ghInclude \in SUBSET {PatTxt}
    /\ ghExclude \in SUBSET {PatMd}
    /\ gpc = "list"
    /\ ghIdx = 0
    /\ tmpdirs = {}
    /\ cloneAttempts = [i \in 1..Len(ghList) |-> 0]

IdleGh ==
    /\ ghList = <<>>
    /\ ghInclude = {}
    /\ ghExclude = {}
    /\ gpc = "idle"
    /\ ghIdx = 0
    /\ tmpdirs = {}
    /\ cloneAttempts = <<>>

(* The closure returns Err(e): its locals, the TempDir among them, drop.   *)
GhFail(e) ==
    /\ futState' = "err"
    /\ futErr' = e
    /\ gpc' = "done"
    /\ tmpdirs' = tmpdirs \ {ghIdx}

(* repositories.next().await, `repository?` and TempDir::new.              *)
GhListNextAhead ==
    /\ futState = "running"
    /\ gpc = "list" \/ (gpc = "walk" /\ ghIdx < Len(ghList))
    /\ IF ghIdx = Len(ghList)
       THEN /\ futState' = "ok"
            /\ gpc' = "done"
            /\ UNCHANGED <<futErr, ghIdx, tmpdirs>>
       ELSE /\ ghIdx' = ghIdx + 1
            /\ IF IsErr(ghList[ghIdx + 1])
               THEN GhFail(ghList[ghIdx + 1].err)
               ELSE /\ tmpdirs' = tmpdirs \cup {ghIdx + 1}
                    /\ gpc' = "clone"
                    /\ UNCHANGED <<futState, futErr>>
    /\ UNCHANGED <<chan, rxOpen, mgr, observed, ended, fsVars,
                   ghList, ghInclude, ghExclude, cloneAttempts>>
GhListNext ==
    /\ futState = "running"
    /\ gpc = "list"
    /\ IF ghIdx = Len(ghList)
       THEN /\ futState' = "ok"
            /\ gpc' = "done"
            /\ UNCHANGED <<futErr, ghIdx, tmpdirs>>
       ELSE /\ ghIdx' = ghIdx + 1
            /\ IF IsErr(ghList[ghIdx + 1])
               THEN GhFail(ghList[ghIdx + 1].err)
               ELSE /\ tmpdirs' = tmpdirs \cup {ghIdx + 1}
                    /\ gpc' = "clone"
                    /\ UNCHANGED <<futState, futErr>>
    /\ UNCHANGED <<chan, rxOpen, mgr, observed, ended, fsVars,
                   ghList, ghInclude, ghExclude, cloneAttempts>>

(* The clone task and its two `?`; on success the FileSystemDocumentSource *)
(* over the temporary directory is built and fetched.                      *)
GhClone ==
    /\ futState = "running"
    /\ gpc = "clone"
    /\ cloneAttempts' = [cloneAttempts EXCEPT ![ghIdx] = @ + 1]
    /\ LET remote == Remote(ghList[ghIdx].ok.clone_url) IN
       IF remote.cloneOk
       THEN /\ gpc' = "walk"
            /\ fsTree' = Relocate(remote.files, TmpRoot(ghIdx))
            /\ fsPaths' = <<TmpRoot(ghIdx)>>
            /\ fsInclude' = FetchInclude(ghInclude, ghExclude)
            /\ fsExclude' = FetchExclude(ghInclude, ghExclude)
            /\ fsRoot' = 0
            /\ fsStack' = <<>>
            /\ fsYield' = <<>>
            /\ fsState' = "walking"
            /\ UNCHANGED <<futState, futErr, tmpdirs, fsSourceId, fsOut>>
       ELSE /\ GhFail("Error while cloning repository")
            /\ UNCHANGED fsVars
    /\ UNCHANGED <<chan, rxOpen, mgr, observed, ended,
                   ghList, ghInclude, ghExclude, ghIdx>>

(* documents.next().await: the file system stream is polled.               *)
GhPolls == futState = "running" /\ gpc = "walk"

(* tx.send(document).await?: the item the stream yielded, a Document or an *)
(* error alike, goes into the channel; a closed channel fails the closure. *)
GhSendDocument ==
    /\ GhPolls
    /\ fsYield # <<>>
    /\ \/ /\ SendEnabled
          /\ chan' = Append(chan, fsYield[1])
          /\ fsYield' = <<>>
          /\ UNCHANGED <<futState, futErr, gpc, tmpdirs, fsTree>>
       \/ /\ ~rxOpen
          /\ GhFail("SendError")
          /\ fsTree' = {}
          /\ UNCHANGED <<chan, fsYield>>
    /\ UNCHANGED <<rxOpen, mgr, observed, ended, fsSourceId, fsPaths, fsInclude,
                   fsExclude, fsRoot, fsStack, fsState, fsOut,
                   ghList, ghInclude, ghExclude, ghIdx, cloneAttempts>>

(* documents.next() is None: the loop body ends, `dest` drops and the      *)
(* temporary directory is deleted.                                         *)
GhWalkEndKeepsDir ==
    /\ GhPolls
    /\ FsTerminated
    /\ gpc' = "list"
    /\ UNCHANGED <<bridgeVars, fsVars, tmpdirs,
                   ghList, ghInclude, ghExclude, ghIdx, cloneAttempts>>
GhWalkEnd ==
    /\ GhPolls
    /\ FsTerminated
    /\ gpc' = "list"
    /\ tmpdirs' = tmpdirs \ {ghIdx}
    /\ fsTree' = {}
    /\ UNCHANGED <<bridgeVars, fsSourceId, fsPaths, fsInclude, fsExclude, fsRoot,
                   fsStack, fsYield, fsState, fsOut,
                   ghList, ghInclude, ghExclude, ghIdx, cloneAttempts>>

----------------------------------------------------------------------------
(* TantivySearchEngine (search/tantivy_impl.rs)                            *)
(*                                                                         *)
(* A text is the sequence of its words.  The index is a bag of stored      *)
(* tantivy documents: a function from the documents to their number of     *)
(* copies.                                                                 *)

MaxCalls == 3
MaxEngineCalls == 2

(* TopDocs::with_limit(10)                                                 *)
TopK == 10
(* tokio::sync::mpsc::channel(64)                                          *)
ResultsCapacity == 64

Document1 ==
    [id |-> "1", source |-> "My source", title |-> <<"Hello", "world">>,
     link |-> "link1", content |-> <<"Hello", "content">>, metadata |-> {}]
Document2 ==
    [id |-> "2", source |-> "My source", title |-> <<"Computer", "science">>,
     link |-> "link2", content |-> <<"Computer", "science", "content">>,
     metadata |-> {}]
Document3 ==
    [id |-> "computer", source |-> "Other source", title |-> <<"world">>,
     link |-> "Hello", content |-> <<"science">>,
     metadata |-> {<<"lang", "en">>}]
Documents == {Document1, Document2, Document3}

(* index, 80-86: the doc! of a Document: its five schema fields.           *)
TantivyDocSwapped(document) ==
    [title |-> document.title, id |-> document.link, content |-> document.content,
     link |-> document.id, source |-> document.source]
TantivyDoc(document) ==
    [title |-> document.title, id |-> document.id, content |-> document.content,
     link |-> document.link, source |-> document.source]

TantivyDocs == {TantivyDoc(d) : d \in Documents}

(* tantivy_doc_to_doks: the stored fields, and an empty metadata map.      *)
tantivy_doc_to_doks(doc) ==
    [title |-> doc.title, id |-> doc.id, link |-> doc.link,
     content |-> doc.content, source |-> doc.source, metadata |-> {}]

(* The default tokenizer of a TEXT field splits the words and lowercases   *)
(* them; STRING fields (id, link, source) are indexed as they are.         *)
LowerCase(word) ==
    CASE word = "Hello" -> "hello"
      [] word = "Computer" -> "computer"
      [] OTHER -> word
Tokens(text) == {LowerCase(text[i]) : i \in 1..Len(text)}

(* QueryParser::for_index(index, [title, content]): a one-word query       *)
(* matches a document whose title or content holds the word's token.       *)
QueryMatches(q, doc) ==
    LowerCase(q) \in Tokens(doc.title) \cup Tokens(doc.content)

(* The query strings given to search: two words, and a query on a field   *)
(* the index does not have.                                                *)
Queries == {"Computer", "2", "nofield:x"}

(* query_parser.parse_query(query): a query the parser rejects is an error.*)
ParseQuery(q) ==
    IF q = "nofield:x" THEN Err("Field does not exist") ELSE Ok(q)

EmptyBag == [d \in TantivyDocs |-> 0]
BagAdd(b, d) == [b EXCEPT ![d] = @ + 1]
BagUnion(a, b) == [d \in TantivyDocs |-> a[d] + b[d]]
RECURSIVE BagSizeOver(_, _)
BagSizeOver(b, S) ==
    IF S = {} THEN 0
    ELSE LET d == CHOOSE x \in S : TRUE IN b[d] + BagSizeOver(b, S \ {d})
BagSize(b) == BagSizeOver(b, TantivyDocs)
SubBag(a, b) == \A d \in TantivyDocs : a[d] <= b[d]

(* The matches of a query among the documents a searcher sees.             *)
Matches(q, bag) == [d \in TantivyDocs |-> IF QueryMatches(q, d) THEN bag[d] ELSE 0]

TopDocsUnlimited(q, bag) == {Matches(q, bag)}

(* searcher.search(query, TopDocs::with_limit(TopK)): the TopK best        *)
(* matches, or all of them when there are fewer; which ones are best is    *)
(* the engine's ranking.                                                   *)
TopDocsOf(q, bag) ==
    LET all == Matches(q, bag) IN
    IF BagSize(all) <= TopK THEN {all}
    ELSE {top \in [TantivyDocs -> 0..TopK] :
            SubBag(top, all) /\ BagSize(top) = TopK}

(* The documents of a bag in ranking order.                                *)
RECURSIVE Ranked(_)
Ranked(bag) ==
    IF BagSize(bag) = 0 THEN <<>>
    ELSE LET d == CHOOSE x \in TantivyDocs : bag[x] > 0 IN
         <<d>> \o Ranked([bag EXCEPT ![d] = @ - 1])


(* Index::open_or_create on the directory an earlier run left: the indexes *)
(* a search, alone or after one index call, is run on, up to more matches  *)
(* than TopK.                                                              *)
StoredIndexes ==
    {[EmptyBag EXCEPT ![TantivyDoc(Document2)] = n] : n \in {0, 1, TopK, TopK + 2}}

(* The batches of the concurrent index calls.                              *)
IndexBatches == {<<>>, <<Document2>>, <<Document1, Document2>>}

(* The batches of the index calls that run beside a search: the batch of   *)
(* the test, then one more document or the same document again.            *)
EngineBatches(c) ==
    IF c % 2 = 1 THEN {<<Document1, Document2>>}
    ELSE {<<Document3>>, <<Document2>>}

Calls == DOMAIN batches

InitIndexCalls == batches \in [1..MaxCalls -> IndexBatches]

InitEngineCalls ==
    batches \in {b \in [1..MaxEngineCalls ->
                          UNION {EngineBatches(c) : c \in 1..MaxEngineCalls}] :
                    \A c \in 1..MaxEngineCalls : b[c] \in EngineBatches(c)}

InitIndex ==
    /\ ipc = [c \in Calls |-> "idle"]
    /\ ipos = [c \in Calls |-> 0]
    /\ readers = {}
    /\ writers = {}
    /\ pending = EmptyBag
    /\ committed = EmptyBag
    /\ snapshot = committed
    /\ hadCommitted = {}

(* The engine opened on the index an earlier run left.                     *)
InitStoredIndex ==
    /\ ipc = [c \in Calls |-> "idle"]
    /\ ipos = [c \in Calls |-> 0]
    /\ readers = {}
    /\ writers = {}
    /\ pending = EmptyBag
    /\ committed \in StoredIndexes
    /\ snapshot = committed
    /\ hadCommitted = {}

IdleIndex ==
    /\ batches = <<>>
    /\ ipc = <<>>
    /\ ipos = <<>>
    /\ readers = {}
    /\ writers = {}
    /\ pending = <<>>
    /\ committed = <<>>
    /\ snapshot = <<>>
    /\ hadCommitted = {}

InitSearch ==
    /\ query = ""
    /\ searcher = EmptyBag
    /\ visible = {}
    /\ spc = "idle"
    /\ topDocs = <<>>
    /\ schan = <<>>
    /\ srxOpen = TRUE
    /\ results = <<>>
    /\ sended = FALSE

IdleSearch ==
    /\ query = ""
    /\ searcher = <<>>
    /\ visible = {}
    /\ spc = "off"
    /\ topDocs = <<>>
    /\ schan = <<>>
    /\ srxOpen = FALSE
    /\ results = <<>>
    /\ sended = FALSE

(* std::sync::RwLock: a reader enters when no writer holds the lock, a     *)
(* writer when nobody holds it.                                            *)
CanRead == writers = {}
CanWriteIgnoresWriter == readers = {}
CanWrite == writers = {} /\ readers = {}

(* index(documents) is called: the blocking task is spawned.  Calls are    *)
(* numbered in the order of their invocation.                              *)
Invoke(c) ==
    /\ ipc[c] = "idle"
    /\ \A b \in Calls : b < c => ipc[b] # "idle"
    /\ ipc' = [ipc EXCEPT ![c] = IF batches[c] = <<>> THEN "write" ELSE "add"]
    /\ UNCHANGED <<batches, ipos, readers, writers, pending, committed,
                   snapshot, hadCommitted>>

(* writer.read(): the read lock for one add_document.                      *)
ReadLock(c) ==
    /\ ipc[c] = "add"
    /\ CanRead
    /\ readers' = readers \cup {c}
    /\ ipc' = [ipc EXCEPT ![c] = "reading"]
    /\ UNCHANGED <<batches, ipos, writers, pending, committed, snapshot, hadCommitted>>

(* add_document(doc!(...)) and the release of the read lock.               *)
AddDocument(c) ==
    /\ ipc[c] = "reading"
    /\ pending' = BagAdd(pending, TantivyDoc(batches[c][ipos[c] + 1]))
    /\ ipos' = [ipos EXCEPT ![c] = @ + 1]
    /\ readers' = readers \ {c}
    /\ ipc' = [ipc EXCEPT ![c] = IF ipos[c] + 1 = Len(batches[c]) THEN "write"
                                 ELSE "add"]
    /\ UNCHANGED <<batches, writers, committed, snapshot, hadCommitted>>

(* writer.write(): taken at once when the lock is free, else the call      *)
(* blocks; any blocked call may get the lock when it becomes free.         *)
WriteLock(c) ==
    /\ ipc[c] = "write"
    /\ IF CanWrite
       THEN /\ writers' = writers \cup {c}
            /\ ipc' = [ipc EXCEPT ![c] = "commit"]
       ELSE /\ ipc' = [ipc EXCEPT ![c] = "blocked"]
            /\ UNCHANGED writers
    /\ UNCHANGED <<batches, ipos, readers, pending, committed, snapshot, hadCommitted>>

WriteLockGranted(c) ==
    /\ ipc[c] = "blocked"
    /\ CanWrite
    /\ writers' = writers \cup {c}
    /\ ipc' = [ipc EXCEPT ![c] = "commit"]
    /\ UNCHANGED <<batches, ipos, readers, pending, committed, snapshot, hadCommitted>>

(* The blocking task is cancelled before it has run (the runtime is       *)
(* shutting down): task.await is a JoinError and index returns it.         *)
JoinError(c) ==
    /\ ipc[c] \in {"add", "write"}
    /\ ipos[c] = 0
    /\ ipc' = [ipc EXCEPT ![c] = "failed"]
    /\ UNCHANGED <<batches, ipos, readers, writers, pending, committed,
                   snapshot, hadCommitted>>

(* commit(): everything added so far, by any call, becomes part of the     *)
(* index; the write guard, a temporary, is dropped and the closure returns *)
(* Ok(()).  index itself has not returned yet: task.await is polled later. *)
ReturnWithoutCommit(c) ==
    /\ ipc[c] = "commit"
    /\ writers' = writers \ {c}
    /\ ipc' = [ipc EXCEPT ![c] = "committed"]
    /\ UNCHANGED <<batches, ipos, readers, pending, committed, snapshot, hadCommitted>>
Commit(c) ==
    /\ ipc[c] = "commit"
    /\ committed' = BagUnion(committed, pending)
    /\ pending' = EmptyBag
    /\ writers' = writers \ {c}
    /\ ipc' = [ipc EXCEPT ![c] = "committed"]
    /\ UNCHANGED <<batches, ipos, readers, snapshot, hadCommitted>>

(* commit()? fails: nothing is published, what was added stays with the    *)
(* writer, the write guard is dropped and the closure returns the error.   *)
CommitFails(c) ==
    /\ ipc[c] = "commit"
    /\ writers' = writers \ {c}
    /\ ipc' = [ipc EXCEPT ![c] = "commitfailed"]
    /\ UNCHANGED <<batches, ipos, readers, pending, committed, snapshot, hadCommitted>>

(* task.await? resumes index on the runtime: it returns what the closure   *)
(* returned.                                                               *)
IndexReturn(c) ==
    /\ ipc[c] \in {"committed", "commitfailed"}
    /\ ipc' = [ipc EXCEPT ![c] = IF ipc[c] = "committed" THEN "done" ELSE "failed"]
    /\ UNCHANGED <<batches, ipos, readers, writers, pending, committed,
                   snapshot, hadCommitted>>

(* The index calls whose own commit has succeeded.                         *)
CommittedCalls == {c \in Calls : ipc[c] \in {"committed", "done"}}

(* reader.reload() (or the reader's reload on commit): a new searcher      *)
(* over what is committed.                                                 *)
ReloadSeesPending ==
    /\ spc # "off"
    /\ snapshot' = BagUnion(committed, pending)
    /\ snapshot' # snapshot
    /\ hadCommitted' = CommittedCalls
    /\ UNCHANGED <<batches, ipc, ipos, readers, writers, pending, committed>>
Reload ==
    /\ spc # "off"
    /\ snapshot # committed \/ hadCommitted # CommittedCalls
    /\ snapshot' = committed
    /\ hadCommitted' = CommittedCalls
    /\ UNCHANGED <<batches, ipc, ipos, readers, writers, pending, committed>>

(* search(query): the searcher is taken and the query parsed; when         *)
(* parse_query(query)? fails search returns the error, and there is no     *)
(* channel, no task and no stream; otherwise the task is spawned and the   *)
(* result stream returned.                                                 *)
Search(q) ==
    /\ spc = "idle"
    /\ query' = q
    /\ searcher' = snapshot
    /\ visible' = hadCommitted
    /\ IF IsErr(ParseQuery(q))
       THEN spc' = "rejected" /\ srxOpen' = FALSE
       ELSE spc' = "collect" /\ srxOpen' = srxOpen
    /\ UNCHANGED <<topDocs, schan, results, sended>>

(* searcher.search(query, TopDocs::with_limit(10))                         *)
SearchTopDocs ==
    /\ spc = "collect"
    /\ \E top \in TopDocsOf(query, searcher) : topDocs' = Ranked(top)
    /\ spc' = "send"
    /\ UNCHANGED <<query, searcher, visible, schan, srxOpen, results, sended>>

(* searcher.search(...)? fails (an I/O error of the engine): the closure   *)
(* returns the error as its value; its JoinHandle was dropped at spawn, so *)
(* nobody reads it, and results_tx is dropped with the closure.            *)
SearchTopDocsFails ==
    /\ spc = "collect"
    /\ spc' = "failed"
    /\ UNCHANGED <<query, searcher, visible, topDocs, schan, srxOpen, results, sended>>

(* searcher.doc(doc_address)? or tantivy_doc_to_doks(doc, &fields)? fails:  *)
(* the closure returns the error in the same way.                          *)
SearchDocFails ==
    /\ spc = "send"
    /\ topDocs # <<>>
    /\ spc' = "failed"
    /\ UNCHANGED <<query, searcher, visible, topDocs, schan, srxOpen, results, sended>>

(* searcher.doc, tantivy_doc_to_doks and results_tx.blocking_send(Ok(doc))? *)
SearchSend ==
    /\ spc = "send"
    /\ topDocs # <<>>
    /\ \/ /\ srxOpen /\ Len(schan) < ResultsCapacity
          /\ schan' = Append(schan, Ok(tantivy_doc_to_doks(Head(topDocs))))
          /\ topDocs' = Tail(topDocs)
          /\ spc' = spc
       \/ /\ ~srxOpen
          /\ spc' = "done"
          /\ UNCHANGED <<schan, topDocs>>
    /\ UNCHANGED <<query, searcher, visible, srxOpen, results, sended>>

(* The loop is over: the task returns and drops results_tx.                *)
SearchTaskEnd ==
    /\ spc = "send"
    /\ topDocs = <<>>
    /\ spc' = "done"
    /\ UNCHANGED <<query, searcher, visible, topDocs, schan, srxOpen, results, sended>>

SearchRecv ==
    /\ srxOpen /\ ~sended
    /\ schan # <<>>
    /\ results' = Append(results, Head(schan))
    /\ schan' = Tail(schan)
    /\ UNCHANGED <<query, searcher, visible, spc, topDocs, srxOpen, sended>>

SearchEnd ==
    /\ srxOpen /\ ~sended
    /\ schan = <<>>
    /\ spc \in {"done", "failed"}
    /\ sended' = TRUE
    /\ UNCHANGED <<query, searcher, visible, spc, topDocs, schan, srxOpen, results>>

SearchDrop ==
    /\ srxOpen /\ ~sended
    /\ spc \notin {"off", "idle"}
    /\ srxOpen' = FALSE
    /\ schan' = <<>>
    /\ UNCHANGED <<query, searcher, visible, spc, topDocs, results, sended>>

----------------------------------------------------------------------------
(* cli_main, DoksCommand::Index (cli/mod.rs)                               *)
(*                                                                         *)
(* For each configured source in turn: source.fetch().batched(10), and for *)
(* each batch of the stream: collect it into a Result and index it.  The   *)
(* batched stream of the current source is the batched stream above; the   *)
(* search engine is a Box<dyn SearchEngine>: an index call returns Ok or   *)
(* an error.                                                               *)

MaxSources == 2

(* source.fetch().batched(10)                                              *)
DriverBatchSize == 10

(* What a source's fetch yields: len items, numbered from base, those at   *)
(* the positions errs being errors.                                        *)
SourceItems(base, len, errs) ==
    [k \in 1..len |-> IF k \in errs THEN Err("io" \o ToString(base + k))
                      ELSE Ok(base + k)]

(* Sources of less than a batch, a batch, more than a batch, with and      *)
(* without an error item, in a first and in a later batch.                 *)
SourceScripts ==
    {<<>>,
     SourceItems(20, 3, {}),
     SourceItems(30, DriverBatchSize, {}),
     SourceItems(0, DriverBatchSize + 2, {}),
     SourceItems(40, 7, {5, 6}),
     SourceItems(50, DriverBatchSize + 2, {DriverBatchSize + 2})}

(* The errors of SourceConfig::try_into: an include or exclude that is not *)
(* a regex, and a github source whose repositories are `from: api`.        *)
BuildErrors == {"regex parse error", "Not yet supported"}

(* source.try_into(): the source, or the error of its configuration.       *)
TryInto(j) == IF dbuild[j] = "ok" THEN Ok(dsources[j]) ELSE Err(dbuild[j])

(* What fails before the loop over the sources: read_to_string of the      *)
(* config file, serde_json::from_str, and the engine's try_into            *)
(* (TantivySearchEngine::new on a path that cannot be a directory).        *)
ConfigErrors == {"No such file or directory", "config is not JSON"}
StartErrors == ConfigErrors \cup {"Not a directory"}

(* cli_main is called: nothing has run yet.  A config that cannot be read  *)
(* or parsed names no source.                                              *)
InitDriver ==
    /\ dsources \in UNION {[1..n -> SourceScripts] : n \in 1..MaxSources}
    /\ dbuild \in [1..Len(dsources) -> {"ok"} \cup BuildErrors]
    /\ \A j \in 1..Len(dsources) : dbuild[j] # "ok" => dsources[j] = <<>>
    /\ dstartup \in {"ok"} \cup StartErrors
    /\ dstartup \in ConfigErrors => \A j \in 1..Len(dsources) : dsources[j] = <<>> /\ dbuild[j] = "ok"
    /\ dsrc = 0
    /\ dpc = "start"
    /\ derr = "none"
    /\ fetched = <<>>
    /\ indexed = <<>>
    /\ inflight = 0

IdleDriver ==
    /\ dsources = <<>>
    /\ dbuild = <<>>
    /\ dstartup = "ok"
    /\ dsrc = 0
    /\ dpc = "off"
    /\ derr = "none"
    /\ fetched = <<>>
    /\ indexed = <<>>
    /\ inflight = 0

(* The first error of a batch, as collect::<anyhow::Result<Vec<_>>> finds  *)
(* it.                                                                     *)
HasError(docs) == \E k \in 1..Len(docs) : IsErr(docs[k])
FirstError(docs) ==
    docs[CHOOSE k \in 1..Len(docs) :
            IsErr(docs[k]) /\ \A j \in 1..(k - 1) : IsOk(docs[j])].err

(* The config file is read and parsed and the engine built, each with a    *)
(* `?`: the first that fails is what cli_main returns, before any source.  *)
DriverStart ==
    /\ dpc = "start"
    /\ IF dstartup = "ok"
       THEN dpc' = "next" /\ derr' = derr
       ELSE dpc' = "failed" /\ derr' = dstartup
    /\ UNCHANGED <<dsources, dbuild, dstartup, dsrc, fetched, indexed, inflight, batchVars>>

(* for source in &config.sources: source.try_into()? returns the error of  *)
(* a source that cannot be built; otherwise source.fetch().batched(10)     *)
(* spawns the batching task over the source's stream.                      *)
DriverFetch ==
    /\ dpc = "next"
    /\ dsrc < Len(dsources)
    /\ dsrc' = dsrc + 1
    /\ IF IsErr(TryInto(dsrc + 1))
       THEN /\ dpc' = "failed"
            /\ derr' = TryInto(dsrc + 1).err
            /\ UNCHANGED <<fetched, batchVars>>
       ELSE /\ fetched' = Append(fetched, dsrc + 1)
            /\ dpc' = "pull"
            /\ bsrc' = TryInto(dsrc + 1).ok
            /\ bsize' = DriverBatchSize
            /\ bpos' = 0
            /\ batch' = <<>>
            /\ btask' = "pull"
            /\ bchan' = <<>>
            /\ brxOpen' = TRUE
            /\ groups' = <<>>
            /\ bended' = FALSE
            /\ derr' = derr
    /\ UNCHANGED <<dsources, dbuild, dstartup, indexed, inflight>>

(* The loop over the sources is over: Ok(()).                              *)
DriverDone ==
    /\ dpc = "next"
    /\ dsrc = Len(dsources)
    /\ dpc' = "done"
    /\ UNCHANGED <<dsources, dbuild, dstartup, dsrc, derr, fetched, indexed, inflight, batchVars>>

(* stream.next().await yields Some(documents).                             *)
DriverRecv ==
    /\ dpc = "pull"
    /\ BatchConsumerRecv
    /\ dpc' = "collect"
    /\ UNCHANGED <<dsources, dbuild, dstartup, dsrc, derr, fetched, indexed, inflight>>

(* stream.next().await yields None: the next source.                       *)
DriverSourceEnd ==
    /\ dpc = "pull"
    /\ BatchConsumerEnd
    /\ dpc' = "next"
    /\ UNCHANGED <<dsources, dbuild, dstartup, dsrc, derr, fetched, indexed, inflight>>

(* A `?` returns the error from cli_main: the stream is dropped with the   *)
(* function's locals.                                                      *)
DriverReturnErr(e) ==
    /\ dpc' = "failed"
    /\ derr' = e
    /\ brxOpen' = FALSE
    /\ bchan' = <<>>
    /\ UNCHANGED <<bsrc, bsize, bpos, batch, btask, groups, bended>>

(* documents.into_iter().collect::<Result<Vec<_>>>().context(...)? and the *)
(* call of search.index(collected).                                        *)
DriverCollectKeepsOkItems ==
    /\ dpc = "collect"
    /\ LET docs == groups[Len(groups)] IN
       IF HasError(docs)
       THEN /\ DriverReturnErr(FirstError(docs))
            /\ indexed' = Append(indexed, [src |-> dsrc, docs |-> SelectSeq(docs, IsOk)])
            /\ UNCHANGED inflight
       ELSE /\ dpc' = "index"
            /\ inflight' = inflight + 1
            /\ indexed' = Append(indexed, [src |-> dsrc, docs |-> docs])
            /\ UNCHANGED <<derr, batchVars>>
    /\ UNCHANGED <<dsources, dbuild, dstartup, dsrc, fetched>>
DriverCollectRollsBack ==
    /\ dpc = "collect"
    /\ LET docs == groups[Len(groups)] IN
       IF HasError(docs)
       THEN /\ DriverReturnErr(FirstError(docs))
            /\ indexed' = SelectSeq(indexed, LAMBDA c : c.src < dsrc)
            /\ UNCHANGED inflight
       ELSE /\ dpc' = "index"
            /\ inflight' = inflight + 1
            /\ indexed' = Append(indexed, [src |-> dsrc, docs |-> docs])
            /\ UNCHANGED <<derr, batchVars>>
    /\ UNCHANGED <<dsources, dbuild, dstartup, dsrc, fetched>>
DriverCollectNoAwait ==
    /\ dpc = "collect"
    /\ LET docs == groups[Len(groups)] IN
       IF HasError(docs)
       THEN /\ DriverReturnErr(FirstError(docs))
            /\ UNCHANGED <<indexed, inflight>>
       ELSE /\ dpc' = "pull"
            /\ inflight' = inflight + 1
            /\ indexed' = Append(indexed, [src |-> dsrc, docs |-> docs])
            /\ UNCHANGED <<derr, batchVars>>
    /\ UNCHANGED <<dsources, dbuild, dstartup, dsrc, fetched>>
DriverCollect ==
    /\ dpc = "collect"
    /\ LET docs == groups[Len(groups)] IN
       IF HasError(docs)
       THEN /\ DriverReturnErr(FirstError(docs))
            /\ UNCHANGED <<indexed, inflight>>
       ELSE /\ dpc' = "index"
            /\ inflight' = inflight + 1
            /\ indexed' = Append(indexed, [src |-> dsrc, docs |-> docs])
            /\ UNCHANGED <<derr, batchVars>>
    /\ UNCHANGED <<dsources, dbuild, dstartup, dsrc, fetched>>

(* search.index(collected).await? returns: Ok(()), or an error of the      *)
(* engine, which cli_main returns.                                         *)
DriverIndexReturn ==
    /\ dpc = "index"
    /\ inflight' = inflight - 1
    /\ \/ /\ dpc' = "pull"
          /\ UNCHANGED <<derr, batchVars>>
       \/ DriverReturnErr("index failed")
    /\ UNCHANGED <<dsources, dbuild, dstartup, dsrc, fetched, indexed>>

----------------------------------------------------------------------------
(* GithubStarsLister::list (sources/gh.rs)                                 *)
(*                                                                         *)
(* The server holds a list of answers.  Answer n is what it returns to the *)
(* request that carries the end cursor of page n-1 (the empty cursor for   *)
(* n = 1): a network failure, a body without the nodes array, a body       *)
(* without a readable pageInfo, or a page.  A node is a JSON object; the   *)
(* server may return one without its url.                                  *)

MaxPages == 2

NodeA == [name |-> "a", url |-> "git@a"]
NodeB == [name |-> "b", url |-> "git@b"]
NodeNoUrl == [name |-> "c"]
NodeLists == {<<>>, <<NodeA>>, <<NodeA, NodeB>>, <<NodeA, NodeNoUrl>>,
              <<NodeNoUrl, NodeB>>}

Answers ==
    [kind : {"page"}, nodes : NodeLists, hasNextPage : BOOLEAN]
        \cup {[kind |-> k, nodes |-> <<>>, hasNextPage |-> FALSE] :
                 k \in {"network", "nonodes", "nopageinfo"}}

ServerScripts == UNION {[1..k -> Answers] : k \in 1..MaxPages}

NoPage == [kind |-> "none", nodes |-> <<>>,
           pageInfo |-> [has_next_page |-> FALSE, end_cursor |-> ""]]

(* The end cursor the server gives to its page n.                          *)
EndCursor(n) == "cursor" \o ToString(n)

(* The number of the answer a request with this cursor gets.               *)
PageAfter(cursor) ==
    IF cursor = "" THEN 1
    ELSE 1 + CHOOSE n \in 1..(MaxPages + 1) : EndCursor(n) = cursor

(* client.graphql(&query): the body the server returns for the cursor of   *)
(* the query; a request past the last answer fails.                        *)
Graphql(cursor) ==
    LET n == PageAfter(cursor) IN
    IF n > Len(lserver)
    THEN [kind |-> "network", nodes |-> <<>>,
          pageInfo |-> [has_next_page |-> FALSE, end_cursor |-> EndCursor(n)]]
    ELSE [kind |-> lserver[n].kind, nodes |-> lserver[n].nodes,
          pageInfo |-> [has_next_page |-> lserver[n].hasNextPage,
                        end_cursor |-> EndCursor(n)]]

(* gh_starred_gql_query: start_cursor.unwrap_or_default() of               *)
(* page_info.take().map(|v| v.end_cursor).                                 *)
StartCursor(page_info) ==
    IF page_info = <<>> THEN "" ELSE page_info[1].end_cursor

(* get_array(&page, [.. "nodes"]).                                         *)
GetArray(page) ==
    IF page.kind = "nonodes" THEN Err("Expected array") ELSE Ok(page.nodes)

(* parse_json::<PageInfo>(&page, [.. "pageInfo"]).                         *)
ParsePageInfo(page) ==
    IF page.kind = "nopageinfo" THEN Err("Couldn't parse pageInfo")
    ELSE Ok(page.pageInfo)

(* serde_json::from_value::<RepositoryInfo>(item) with its context: name   *)
(* and url (the alias of clone_url) are both required.                     *)
ParseRepositoryInfo(item) ==
    IF {"name", "url"} \subseteq DOMAIN item
    THEN Ok([name |-> item.name, clone_url |-> item.url])
    ELSE Err("Couldn't parse json into a repository")

InitLister ==
    /\ lserver \in ServerScripts
    /\ lpc = "request"
    /\ lreq = <<>>
    /\ lpage = NoPage
    /\ lnode = 0
    /\ lpageInfo = <<>>
    /\ lsent = <<>>

IdleLister ==
    /\ lserver = <<>>
    /\ lpc = "off"
    /\ lreq = <<>>
    /\ lpage = NoPage
    /\ lnode = 0
    /\ lpageInfo = <<>>
    /\ lsent = <<>>

(* A `?` of the closure returns the error.                                 *)
LsFail(e) ==
    /\ futState' = "err"
    /\ futErr' = e
    /\ lpc' = "done"

(* The head of the loop: the query is built from page_info, which take()   *)
(* empties, and sent; the body is read with the three `?`.                 *)
LsRequest ==
    /\ futState = "running"
    /\ lpc = "request"
    /\ LET cursor == StartCursor(lpageInfo)
           page == Graphql(cursor)
       IN /\ lreq' = Append(lreq, cursor)
          /\ lpageInfo' = <<>>
          /\ IF page.kind = "network"
             THEN LsFail("network") /\ UNCHANGED <<lpage, lnode>>
             ELSE IF IsErr(GetArray(page))
             THEN LsFail(GetArray(page).err) /\ UNCHANGED <<lpage, lnode>>
             ELSE IF IsErr(ParsePageInfo(page))
             THEN LsFail(ParsePageInfo(page).err) /\ UNCHANGED <<lpage, lnode>>
             ELSE /\ lpage' = page
                  /\ lnode' = 0
                  /\ lpc' = "emit"
                  /\ UNCHANGED <<futState, futErr>>
    /\ UNCHANGED <<chan, rxOpen, mgr, observed, ended, lserver, lsent>>

(* One turn of `for item in nodes`: the node is parsed and the Result of   *)
(* the parse, Ok or Err, is sent; only a failed send returns.              *)
LsSendNode ==
    /\ futState = "running"
    /\ lpc = "emit"
    /\ lnode < Len(lpage.nodes)
    /\ LET parsed == ParseRepositoryInfo(lpage.nodes[lnode + 1]) IN
       \/ /\ SendEnabled
          /\ chan' = Append(chan, parsed)
          /\ lsent' = Append(lsent, parsed)
          /\ lnode' = lnode + 1
          /\ UNCHANGED <<futState, futErr, lpc>>
       \/ /\ ~rxOpen
          /\ LsFail("SendError")
          /\ UNCHANGED <<chan, lsent, lnode>>
    /\ UNCHANGED <<rxOpen, mgr, observed, ended, lserver, lreq, lpage, lpageInfo>>

(* After the for loop: break and Ok(()) on the last page, otherwise        *)
(* page_info.replace(current_page_info) and the next turn.                 *)
LsPageEndKeepsPaging ==
    /\ futState = "running"
    /\ lpc = "emit"
    /\ lnode = Len(lpage.nodes)
    /\ lpageInfo' = <<lpage.pageInfo>>
    /\ lpc' = "request"
    /\ UNCHANGED <<futState, futErr>>
    /\ UNCHANGED <<chan, rxOpen, mgr, observed, ended, lserver, lreq, lpage, lnode,
                   lsent>>
LsPageEnd ==
    /\ futState = "running"
    /\ lpc = "emit"
    /\ lnode = Len(lpage.nodes)
    /\ IF ~lpage.pageInfo.has_next_page
       THEN /\ futState' = "ok"
            /\ lpc' = "done"
            /\ UNCHANGED <<futErr, lpageInfo>>
       ELSE /\ lpageInfo' = <<lpage.pageInfo>>
            /\ lpc' = "request"
            /\ UNCHANGED <<futState, futErr>>
    /\ UNCHANGED <<chan, rxOpen, mgr, observed, ended, lserver, lreq, lpage, lnode,
                   lsent>>

----------------------------------------------------------------------------
(* Specifications                                                          *)

engineVars == <<indexVars, searchVars>>
notBridge == <<batchVars, fsVars, ghVars, engineVars, driverVars, listerVars>>
notBatched == <<bridgeVars, scriptVars, fsVars, ghVars, engineVars, driverVars,
                listerVars>>
notFs == <<bridgeVars, scriptVars, batchVars, ghVars, engineVars, driverVars,
           listerVars>>
notGh == <<scriptVars, batchVars, engineVars, driverVars, listerVars>>
notEngine == <<bridgeVars, scriptVars, batchVars, fsVars, ghVars, driverVars,
               listerVars>>
notDriver == <<bridgeVars, scriptVars, fsVars, ghVars, engineVars, listerVars>>
notLister == <<scriptVars, batchVars, fsVars, ghVars, engineVars, driverVars>>
IdleEngine == IdleIndex /\ IdleSearch

InitBridge ==
    /\ InitBridgeVars /\ InitScript
    /\ IdleBatched /\ IdleFs /\ IdleGh /\ IdleEngine /\ IdleDriver /\ IdleLister

NextBridge ==
    \/ ProducerSend /\ UNCHANGED notBridge
    \/ ProducerReturn /\ UNCHANGED notBridge
    \/ ManagerJoin /\ UNCHANGED <<scriptVars, notBridge>>
    \/ ManagerSend /\ UNCHANGED <<scriptVars, notBridge>>
    \/ ConsumerRecv /\ UNCHANGED <<scriptVars, notBridge>>
    \/ ConsumerEnd /\ UNCHANGED <<scriptVars, notBridge>>
    \/ ConsumerDrop /\ UNCHANGED <<scriptVars, notBridge>>

SpecBridge == InitBridge /\ [][NextBridge]_vars

InitBatchedSpec ==
    /\ InitBatched
    /\ IdleBridge /\ IdleScript /\ IdleFs /\ IdleGh /\ IdleEngine /\ IdleDriver
    /\ IdleLister

NextBatched ==
    \/ BatchPull /\ UNCHANGED notBatched
    \/ BatchSend /\ UNCHANGED notBatched
    \/ BatchSourceEnd /\ UNCHANGED notBatched
    \/ BatchFlush /\ UNCHANGED notBatched
    \/ BatchConsumerRecv /\ UNCHANGED notBatched
    \/ BatchConsumerEnd /\ UNCHANGED notBatched
    \/ BatchConsumerDrop /\ UNCHANGED notBatched

SpecBatched == InitBatchedSpec /\ [][NextBatched]_vars

(* The batching task is spawned on the tokio runtime, which keeps running  *)
(* it while it can make progress.  Nothing is assumed of the consumer.     *)
BatchTask ==
    \/ BatchPull /\ UNCHANGED notBatched
    \/ BatchSend /\ UNCHANGED notBatched
    \/ BatchSourceEnd /\ UNCHANGED notBatched
    \/ BatchFlush /\ UNCHANGED notBatched

FairSpecBatched == SpecBatched /\ WF_vars(BatchTask)

InitFsSpec ==
    /\ InitFs
    /\ IdleBridge /\ IdleScript /\ IdleBatched /\ IdleGh /\ IdleEngine /\ IdleDriver
    /\ IdleLister

NextFs ==
    \/ FsNextRoot /\ UNCHANGED notFs
    \/ FsWalkEntry /\ UNCHANGED notFs
    \/ FsEnd /\ UNCHANGED notFs
    \/ FsCollect /\ UNCHANGED notFs

SpecFs == InitFsSpec /\ [][NextFs]_vars

InitGhSpec ==
    /\ InitGh /\ InitBridgeVars
    /\ IdleFs /\ IdleScript /\ IdleBatched /\ IdleEngine /\ IdleDriver /\ IdleLister

GhProducer ==
    \/ GhListNext /\ UNCHANGED notGh
    \/ GhClone /\ UNCHANGED notGh
    \/ GhPolls /\ FsNextRoot /\ UNCHANGED <<bridgeVars, ghVars, notGh>>
    \/ GhPolls /\ FsWalkEntry /\ UNCHANGED <<bridgeVars, ghVars, notGh>>
    \/ GhPolls /\ FsEnd /\ UNCHANGED <<bridgeVars, ghVars, notGh>>
    \/ GhSendDocument /\ UNCHANGED notGh
    \/ GhWalkEnd /\ UNCHANGED notGh

GhManager ==
    \/ ManagerJoin /\ UNCHANGED <<fsVars, ghVars, notGh>>
    \/ ManagerSend /\ UNCHANGED <<fsVars, ghVars, notGh>>

GhConsumer ==
    \/ ConsumerRecv /\ UNCHANGED <<fsVars, ghVars, notGh>>
    \/ ConsumerEnd /\ UNCHANGED <<fsVars, ghVars, notGh>>
    \/ ConsumerDrop /\ UNCHANGED <<fsVars, ghVars, notGh>>

NextGh == GhProducer \/ GhManager \/ GhConsumer

SpecGh == InitGhSpec /\ [][NextGh]_vars

(* The tasks are spawned on the tokio runtime, which keeps running every   *)
(* task that can make progress; the consumer keeps polling the sequence    *)
(* until its end or drops it.                                              *)
FairSpecGh ==
    /\ SpecGh
    /\ WF_vars(GhProducer)
    /\ WF_vars(GhManager)
    /\ WF_vars(GhConsumer)

(* Concurrent index calls on one engine.                                   *)
InitIndexSpec ==
    /\ InitIndexCalls /\ InitIndex /\ IdleSearch
    /\ IdleBridge /\ IdleScript /\ IdleBatched /\ IdleFs /\ IdleGh /\ IdleDriver
    /\ IdleLister

NextIndex ==
    \/ \E c \in Calls : Invoke(c) /\ UNCHANGED <<searchVars, notEngine>>
    \/ \E c \in Calls : ReadLock(c) /\ UNCHANGED <<searchVars, notEngine>>
    \/ \E c \in Calls : AddDocument(c) /\ UNCHANGED <<searchVars, notEngine>>
    \/ \E c \in Calls : WriteLock(c) /\ UNCHANGED <<searchVars, notEngine>>
    \/ \E c \in Calls : WriteLockGranted(c) /\ UNCHANGED <<searchVars, notEngine>>
    \/ \E c \in Calls : Commit(c) /\ UNCHANGED <<searchVars, notEngine>>
    \/ \E c \in Calls : CommitFails(c) /\ UNCHANGED <<searchVars, notEngine>>
    \/ \E c \in Calls : IndexReturn(c) /\ UNCHANGED <<searchVars, notEngine>>
    \/ \E c \in Calls : JoinError(c) /\ UNCHANGED <<searchVars, notEngine>>

SpecIndex == InitIndexSpec /\ [][NextIndex]_vars

(* Index calls, reader reloads and one search on one engine.               *)
InitEngineSpec ==
    /\ InitEngineCalls /\ InitIndex /\ InitSearch
    /\ IdleBridge /\ IdleScript /\ IdleBatched /\ IdleFs /\ IdleGh /\ IdleDriver
    /\ IdleLister

NextSearch ==
    \/ Reload /\ UNCHANGED <<searchVars, notEngine>>
    \/ \E q \in Queries : Search(q) /\ UNCHANGED <<indexVars, notEngine>>
    \/ SearchTopDocs /\ UNCHANGED <<indexVars, notEngine>>
    \/ SearchTopDocsFails /\ UNCHANGED <<indexVars, notEngine>>
    \/ SearchDocFails /\ UNCHANGED <<indexVars, notEngine>>
    \/ SearchSend /\ UNCHANGED <<indexVars, notEngine>>
    \/ SearchTaskEnd /\ UNCHANGED <<indexVars, notEngine>>
    \/ SearchRecv /\ UNCHANGED <<indexVars, notEngine>>
    \/ SearchEnd /\ UNCHANGED <<indexVars, notEngine>>
    \/ SearchDrop /\ UNCHANGED <<indexVars, notEngine>>

NextEngine == NextIndex \/ NextSearch

SpecEngine == InitEngineSpec /\ [][NextEngine]_vars

(* One index call and one search on an engine opened on the index an      *)
(* earlier run left: the call cannot find the write lock taken.            *)
InitIndexThenSearchSpec ==
    /\ batches \in {<<b>> : b \in EngineBatches(1) \cup EngineBatches(2)}
    /\ InitStoredIndex
    /\ InitSearch
    /\ IdleBridge /\ IdleScript /\ IdleBatched /\ IdleFs /\ IdleGh /\ IdleDriver
    /\ IdleLister

NextIndexThenSearch ==
    \/ \E c \in Calls : Invoke(c) /\ UNCHANGED <<searchVars, notEngine>>
    \/ \E c \in Calls : ReadLock(c) /\ UNCHANGED <<searchVars, notEngine>>
    \/ \E c \in Calls : AddDocument(c) /\ UNCHANGED <<searchVars, notEngine>>
    \/ \E c \in Calls : WriteLock(c) /\ UNCHANGED <<searchVars, notEngine>>
    \/ \E c \in Calls : Commit(c) /\ UNCHANGED <<searchVars, notEngine>>
    \/ \E c \in Calls : CommitFails(c) /\ UNCHANGED <<searchVars, notEngine>>
    \/ \E c \in Calls : IndexReturn(c) /\ UNCHANGED <<searchVars, notEngine>>
    \/ \E c \in Calls : JoinError(c) /\ UNCHANGED <<searchVars, notEngine>>
    \/ NextSearch

SpecIndexThenSearch == InitIndexThenSearchSpec /\ [][NextIndexThenSearch]_vars

(* One search on an engine opened on the index an earlier run left, with  *)
(* no index call beside it.                                                *)
InitSearchSpec ==
    /\ batches = <<>>
    /\ InitStoredIndex
    /\ InitSearch
    /\ IdleBridge /\ IdleScript /\ IdleBatched /\ IdleFs /\ IdleGh /\ IdleDriver
    /\ IdleLister

SearchTask ==
    \/ SearchTopDocs /\ UNCHANGED <<indexVars, notEngine>>
    \/ SearchTopDocsFails /\ UNCHANGED <<indexVars, notEngine>>
    \/ SearchDocFails /\ UNCHANGED <<indexVars, notEngine>>
    \/ SearchSend /\ UNCHANGED <<indexVars, notEngine>>
    \/ SearchTaskEnd /\ UNCHANGED <<indexVars, notEngine>>

SearchConsumer ==
    \/ SearchRecv /\ UNCHANGED <<indexVars, notEngine>>
    \/ SearchEnd /\ UNCHANGED <<indexVars, notEngine>>
    \/ SearchDrop /\ UNCHANGED <<indexVars, notEngine>>

NextSearchRun ==
    \/ \E q \in Queries : Search(q) /\ UNCHANGED <<indexVars, notEngine>>
    \/ SearchTask
    \/ SearchConsumer

SpecSearch == InitSearchSpec /\ [][NextSearchRun]_vars

(* The search task runs on a thread of the blocking pool: it takes its     *)
(* next step whenever it has one.  Nothing is assumed of the consumer.     *)
FairSpecSearch == SpecSearch /\ WF_vars(SearchTask)

InitDriverSpec ==
    /\ InitDriver /\ IdleBatched
    /\ IdleBridge /\ IdleScript /\ IdleFs /\ IdleGh /\ IdleEngine /\ IdleLister

NextDriver ==
    \/ DriverStart /\ UNCHANGED notDriver
    \/ DriverFetch /\ UNCHANGED notDriver
    \/ DriverDone /\ UNCHANGED notDriver
    \/ DriverRecv /\ UNCHANGED notDriver
    \/ DriverSourceEnd /\ UNCHANGED notDriver
    \/ DriverCollect /\ UNCHANGED notDriver
    \/ DriverIndexReturn /\ UNCHANGED notDriver
    \/ BatchPull /\ UNCHANGED <<driverVars, notDriver>>
    \/ BatchSend /\ UNCHANGED <<driverVars, notDriver>>
    \/ BatchSourceEnd /\ UNCHANGED <<driverVars, notDriver>>
    \/ BatchFlush /\ UNCHANGED <<driverVars, notDriver>>

SpecDriver == InitDriverSpec /\ [][NextDriver]_vars

(* The starred repositories of a user, read page by page.                  *)
InitListerSpec ==
    /\ InitLister /\ InitBridgeVars
    /\ IdleScript /\ IdleBatched /\ IdleFs /\ IdleGh /\ IdleEngine /\ IdleDriver

NextLister ==
    \/ LsRequest /\ UNCHANGED notLister
    \/ LsSendNode /\ UNCHANGED notLister
    \/ LsPageEnd /\ UNCHANGED notLister
    \/ ManagerJoin /\ UNCHANGED <<listerVars, notLister>>
    \/ ManagerSend /\ UNCHANGED <<listerVars, notLister>>
    \/ ConsumerRecv /\ UNCHANGED <<listerVars, notLister>>
    \/ ConsumerEnd /\ UNCHANGED <<listerVars, notLister>>
    \/ ConsumerDrop /\ UNCHANGED <<listerVars, notLister>>

SpecLister == InitListerSpec /\ [][NextLister]_vars

----------------------------------------------------------------------------
(* Properties                                                              *)

IsPrefix(s, t) == Len(s) <= Len(t) /\ SubSeq(t, 1, Len(s)) = s

RECURSIVE Concat(_)
Concat(ss) == IF ss = <<>> THEN <<>> ELSE Head(ss) \o Concat(Tail(ss))

OkItems(vs) == [i \in 1..Len(vs) |-> Ok(vs[i])]

(* C1: channel_stream, a producer that sends k Ok items and then returns a *)
(* failure: the consumer observes a prefix of those k items followed by    *)
(* the one error, nothing after the error, and when it sees the end of the *)
(* sequence it has observed exactly the k items and then the error.        *)
C1_FailureAfterItems ==
    outcome = "err" =>
        LET full == OkItems(script) \o <<Err("Deliberate failure!")>> IN
        /\ IsPrefix(observed, full)
        /\ ended => observed = full

C1_Witness ==
    /\ outcome = "err"
    /\ ended
    /\ Len(script) = MaxItems
    /\ script[1] # script[2]
    /\ IsErr(observed[Len(observed)])

(* C2: channel_stream, a producer that sends v1..vm and then returns       *)
(* success: the consumer observes a prefix of v1..vm in emission order,    *)
(* and when it sees the end of the sequence it has observed exactly        *)
(* v1..vm, with no error item.                                             *)
C2_SuccessDeliversAll ==
    outcome = "ok" =>
        /\ IsPrefix(observed, OkItems(script))
        /\ ended => observed = OkItems(script)

C2_Witness ==
    /\ outcome = "ok"
    /\ ended
    /\ Len(script) = MaxItems
    /\ script[1] # script[2]
    /\ Len(observed) = MaxItems

(* C3: batched(n), n > 0: the groups received so far concatenate to a      *)
(* prefix of the source, each is non-empty and no longer than n, and every *)
(* group but the last has length n; at the end of the batched stream the   *)
(* concatenation is the whole source (so an empty source gives no group).  *)
C3_BatchedPartition ==
    /\ IsPrefix(Concat(groups), bsrc)
    /\ \A i \in 1..Len(groups) :
          /\ Len(groups[i]) \in 1..bsize
          /\ i < Len(groups) => Len(groups[i]) = bsize
    /\ bended => Concat(groups) = bsrc
    /\ (bended /\ bsrc = <<>>) => groups = <<>>

C3_Witness ==
    /\ bended
    /\ bsize = 2
    /\ Len(bsrc) = 3
    /\ Len(groups) = 2
    /\ Len(groups[2]) = 1

(* The regular files below one of the roots.                               *)
IsBelow(root, path) ==
    /\ Len(path) > Len(root)
    /\ SubSeq(path, 1, Len(root)) = root
FilesBelow(tree, roots) ==
    {e \in tree : e.kind = "file" /\ \E i \in 1..Len(roots) : IsBelow(roots[i], e.path)}

(* The Documents the specification asks of a fetch: one per regular file   *)
(* that matches every include and no exclude.                              *)
ExpectedDocuments(sourceId, tree, roots, include, exclude) ==
    {[id |-> e.path, source |-> sourceId, title |-> e.path[Len(e.path)],
      link |-> e.path, content |-> e.text, metadata |-> {}] :
        e \in {f \in FilesBelow(tree, roots) :
                  /\ \A r \in include : RegexIsMatch(r, f.path)
                  /\ \A r \in exclude : ~RegexIsMatch(r, f.path)}}

(* C4: FileSystem source fetch, one root, every file readable text: when   *)
(* the sequence has ended, the consumer has taken exactly the Documents of *)
(* the files matching all includes and no exclude, each once, and no error.*)
C4_FsYieldsExactlyMatching ==
    (/\ FsTerminated
     /\ fsPaths = <<RootR>>
     /\ \A e \in fsTree : e.text # InvalidUtf8) =>
        LET want == ExpectedDocuments(fsSourceId, fsTree, fsPaths, fsInclude, fsExclude) IN
        /\ \A i \in 1..Len(fsOut) : IsOk(fsOut[i])
        /\ {fsOut[i].ok : i \in 1..Len(fsOut)} = want
        /\ Len(fsOut) = Cardinality(want)

(* C6: GithubSource.fetch: an error item the consumer has received is the  *)
(* last item it receives.                                                  *)
C6_NothingAfterError ==
    \A i \in 1..Len(observed) : IsErr(observed[i]) => i = Len(observed)

(* The repository a delivered Document was read from: the one whose        *)
(* temporary directory its id starts with.                                 *)
FromRepository(doc, i) == doc.id[1] = TmpRoot(i)[1]

CloneError == Err("Error while cloning repository")

CloneFailed(i) ==
    /\ IsOk(ghList[i])
    /\ ~Remote(ghList[i].ok.clone_url).cloneOk
    /\ cloneAttempts[i] > 0

(* C7: GithubSource.fetch: once the clone of the i-th repository has       *)
(* failed, it has been attempted exactly once, no later repository is ever *)
(* cloned, every Document delivered is of a repository before i, nothing   *)
(* follows the clone error, and a consumer that reads to the end has       *)
(* received exactly one error, the clone error, as its last item.          *)
C7_CloneFailureIsTerminal ==
    \A i \in 1..Len(ghList) :
        CloneFailed(i) =>
            /\ cloneAttempts[i] = 1
            /\ \A j \in (i + 1)..Len(ghList) : cloneAttempts[j] = 0
            /\ \A k \in 1..Len(observed) :
                  /\ IsOk(observed[k]) =>
                        \E j \in 1..(i - 1) : FromRepository(observed[k].ok, j)
                  /\ observed[k] = CloneError => k = Len(observed)
            /\ ended =>
                  /\ observed # <<>> /\ observed[Len(observed)] = CloneError
                  /\ Cardinality({k \in 1..Len(observed) : IsErr(observed[k])}) = 1

(* C8: GithubSource.fetch: the FileSystem source of a cloned repository    *)
(* filters with the configured include set and the configured exclude set, *)
(* so no delivered Document's path matches a configured exclude.           *)
C8_ConfiguredFilters ==
    /\ gpc = "walk" => (fsInclude = ghInclude /\ fsExclude = ghExclude)
    /\ \A k \in 1..Len(observed) :
          IsOk(observed[k]) =>
              \A r \in ghExclude : ~RegexIsMatch(r, observed[k].ok.id)

(* C9: GithubSource.fetch: a temporary clone directory exists for as long  *)
(* as the Documents of its repository are being read, and every temporary  *)
(* clone directory that exists is eventually deleted.                      *)
C9_TempDirReleased ==
    /\ [](gpc = "walk" => ghIdx \in tmpdirs)
    /\ \A i \in 1..MaxRepos : (i \in tmpdirs) ~> (i \notin tmpdirs)

C9_Witness ==
    /\ ~rxOpen
    /\ futErr = "SendError"
    /\ Len(ghList) = 2
    /\ cloneAttempts = <<1, 0>>
    /\ observed # <<>>
    /\ tmpdirs = {}

(* The fields of a Document that a search result carries back.             *)
Fields(d) == [id |-> d.id, source |-> d.source, title |-> d.title, link |-> d.link]

(* The query's word, lowercased, is a word of the title or of the content. *)
MatchesTitleOrContent(q, d) ==
    \E f \in {d.title, d.content} :
        \E k \in 1..Len(f) : LowerCase(f[k]) = LowerCase(q)

(* The Documents given to the index calls, and the one an earlier run left.*)
Given(S) == UNION {{<<c, k>> : k \in 1..Len(batches[c])} : c \in S}
IndexedDocuments == {batches[p[1]][p[2]] : p \in Given(Calls)} \cup {Document2}

(* How many times a Document with these fields was given to the index      *)
(* calls of the set S.                                                     *)
GivenBy(S, f) ==
    Cardinality({p \in Given(S) : Fields(batches[p[1]][p[2]]) = f})

(* How many results carry these fields.                                    *)
Found(f) ==
    Cardinality({i \in 1..Len(results) : IsOk(results[i]) /\ Fields(results[i].ok) = f})

(* C5: index then search: when a search whose task met no engine failure  *)
(* has delivered all its results,                                          *)
(* every result is a Document whose title or content matches the query and *)
(* whose id, source, title and link are those of an indexed Document; the  *)
(* results are the matching documents of the searcher, all of them when    *)
(* they are at most TopK and TopK of them otherwise; and every matching    *)
(* Document of an index call that returned before the reload the search    *)
(* saw is among them (when the matches are at most TopK).                  *)
C5_IndexThenSearch ==
    (sended /\ spc = "done") =>
        LET all == Matches(query, searcher)
            n == BagSize(all) IN
        /\ \A i \in 1..Len(results) :
              /\ IsOk(results[i])
              /\ MatchesTitleOrContent(query, results[i].ok)
              /\ \E d \in IndexedDocuments : Fields(results[i].ok) = Fields(d)
        /\ Len(results) = (IF n <= TopK THEN n ELSE TopK)
        /\ \A d \in TantivyDocs :
              LET got == Cardinality({i \in 1..Len(results) :
                                         results[i] = Ok(tantivy_doc_to_doks(d))}) IN
              /\ got <= all[d]
              /\ n <= TopK => got = all[d]
        /\ n <= TopK =>
              \A d \in IndexedDocuments :
                  MatchesTitleOrContent(query, d) =>
                      Found(Fields(d)) >= GivenBy(visible, Fields(d))

C5_Witness ==
    /\ sended
    /\ spc = "done"
    /\ query = "Computer"
    /\ batches[1] = <<Document1, Document2>>
    /\ visible = {1}
    /\ results = <<Ok(Document2)>>

(* C10 as stated: at most one index call holds the write lock at a time,   *)
(* and of two calls both waiting for the write lock the one invoked later  *)
(* is never granted it while the earlier one still waits.                  *)
C10_CommitsInInvocationOrder ==
    /\ [](Cardinality(writers) <= 1)
    /\ [][\A c \in Calls : \A d \in Calls :
             (c < d /\ ipc[c] = "blocked" /\ ipc[d] = "blocked") =>
                 ipc'[d] # "commit"]_vars

(* C10, amended: at most one index call holds the write lock at a time,    *)
(* a call commits only while it alone holds the lock and no add_document   *)
(* holds the read lock; the order in which waiting calls commit is open.   *)
C10_WriteLockExclusive ==
    /\ Cardinality(writers) <= 1
    /\ \A c \in Calls : ipc[c] = "commit" => (writers = {c} /\ readers = {})

C10_Witness ==
    \E c \in Calls : \E d \in Calls :
        /\ c < d
        /\ ipc[c] = "blocked"
        /\ ipc[d] = "commit"
        /\ writers = {d}
        /\ \E e \in Calls : ipc[e] = "done"
(* C11: re-indexing: when a search has delivered all its results and two   *)
(* index calls that returned before the reload it saw were both given the  *)
(* same Document, at most one result carries that Document's id.           *)
C11_NoDuplicateAfterReindex ==
    sended =>
        \A d \in IndexedDocuments :
            (\E c \in visible : \E e \in visible :
                /\ c # e
                /\ GivenBy({c}, Fields(d)) > 0
                /\ GivenBy({e}, Fields(d)) > 0) =>
            Cardinality({i \in 1..Len(results) :
                            IsOk(results[i]) /\ results[i].ok.id = d.id}) <= 1

(* C15: search: when the search task has failed after the result sequence  *)
(* was returned and the consumer has read the sequence to its end, the     *)
(* last item it received is an error.                                      *)
C15_SearchFailureDelivered ==
    (sended /\ spc = "failed") =>
        (results # <<>> /\ IsErr(results[Len(results)]))
(* C16: channel_stream, a producer that sends k items and then panics (or  *)
(* whose task is cancelled: the same JoinError): the consumer observes a   *)
(* prefix of the k items followed by one error, nothing after the error,   *)
(* and when it sees the end of the sequence it has observed exactly the k  *)
(* items and then the one error.                                           *)
C16_PanicAfterItems ==
    outcome = "panic" =>
        LET full == OkItems(script) \o <<Err("Stream panicked")>> IN
        /\ IsPrefix(observed, full)
        /\ ended => observed = full

C16_Witness ==
    /\ outcome = "panic"
    /\ futState = "panic"
    /\ ended
    /\ Len(script) = 2
    /\ observed = <<Ok(script[1]), Ok(script[2]), Err("Stream panicked")>>

(* C17 as stated: after the consumer has dropped the sequence, a producer  *)
(* that still has an item to send stays running: it blocks on its next     *)
(* send and does not end as a result of the drop.                          *)
C17_ProducerBlocksAfterDrop ==
    [][(~rxOpen /\ futState = "running" /\ sent < Len(script)) =>
           futState' = "running"]_vars

(* C17, amended: after the consumer has dropped the sequence no send       *)
(* completes and nothing is buffered; the next send of a running producer  *)
(* fails with a send error, with which the producer ends.                  *)
C17_SendFailsAfterDrop ==
    /\ [](~rxOpen => chan = <<>>)
    /\ [][~rxOpen => sent' = sent]_vars
    /\ [][(~rxOpen /\ futState = "running" /\ sent < Len(script)) =>
             (futState' = "running" \/ (futState' = "err" /\ futErr' = "SendError"))]_vars
    /\ [](futErr = "SendError" => (~rxOpen /\ sent < Len(script)))

C17_Witness ==
    /\ ~rxOpen
    /\ futState = "err"
    /\ futErr = "SendError"
    /\ sent = 1
    /\ Len(script) = MaxItems
    /\ observed = <<>>
    /\ mgr = "done"

(* C18: channel_stream backpressure: at most ChannelCapacity items are     *)
(* sent and not yet received, the items sent are those received plus those *)
(* buffered, and a send completes only when the buffer has room: with the  *)
(* buffer full the producer's send waits for the consumer to take an item. *)
C18_Backpressure ==
    /\ [](Len(chan) <= ChannelCapacity)
    /\ [](rxOpen =>
            sent = Cardinality({i \in 1..Len(observed) : IsOk(observed[i])})
                   + Cardinality({i \in 1..Len(chan) : IsOk(chan[i])}))
    /\ [][sent' # sent => (rxOpen /\ Len(chan) < ChannelCapacity /\ sent' = sent + 1)]_vars

C18_Witness ==
    /\ rxOpen
    /\ futState = "running"
    /\ Len(chan) = ChannelCapacity
    /\ sent = 2
    /\ sent < Len(script)
    /\ Len(observed) = 1
(* C14: batched(n): an error item of the source is emitted with no item of *)
(* the partial batch accumulated before it, and nothing is emitted after   *)
(* it: in the groups received, no Ok item precedes an error inside its     *)
(* group, and an error is the last item of the last group.                 *)
C14_ErrorDropsPartialBatch ==
    \A i \in 1..Len(groups) : \A k \in 1..Len(groups[i]) :
        IsErr(groups[i][k]) =>
            /\ \A j \in 1..(k - 1) : ~IsOk(groups[i][j])
            /\ i = Len(groups)
            /\ k = Len(groups[i])

(* C19: batched(n) backpressure: while the consumer holds the stream and   *)
(* has received b groups, the task has pulled at most (b + 2) * n items;   *)
(* once it has pulled that many it is waiting in send with the channel     *)
(* full, and it pulls nothing more until the consumer receives a group.    *)
C19_BatchedBackpressure ==
    /\ [](brxOpen => bpos <= (Len(groups) + 2) * bsize)
    /\ []((brxOpen /\ bpos = (Len(groups) + 2) * bsize) =>
            (btask = "send" /\ Len(bchan) = BatchChannelCapacity))
    /\ [][(brxOpen /\ bpos = (Len(groups) + 2) * bsize) =>
             (\/ <<bpos', batch', btask'>> = <<bpos, batch, btask>>
              \/ groups' # groups)]_vars

C19_Witness ==
    /\ brxOpen
    /\ bsize = 2
    /\ Len(groups) = 0
    /\ bpos = 4
    /\ btask = "send"
    /\ Len(bchan) = 1
(* C20: FileSystem source fetch: a directory met during the walk produces  *)
(* nothing: no item received is the error of reading a directory, and no   *)
(* Document received has the path of a directory.                          *)
C20_DirectoriesSkipped ==
    \A i \in 1..Len(fsOut) :
        /\ fsOut[i] # Err("Is a directory")
        /\ IsOk(fsOut[i]) =>
              \A e \in fsTree : e.kind = "dir" => e.path # fsOut[i].ok.id
(* The documents handed to index for the sources of S, in call order.      *)
IndexedOf(S) ==
    Concat([i \in 1..Len(SelectSeq(indexed, LAMBDA c : c.src \in S)) |->
               SelectSeq(indexed, LAMBDA c : c.src \in S)[i].docs])

(* What the sources 1..n yield, one after the other.                       *)
EmittedUpTo(n) == Concat([j \in 1..n |-> dsources[j]])

(* An error cli_main returned that is an item of a source: not the error  *)
(* of a source's configuration and not the engine's.                       *)
IsItemError(e) == e \notin StartErrors \cup BuildErrors \cup {"index failed", "none"}

FirstErrorAt(items) ==
    CHOOSE k \in 1..Len(items) : IsErr(items[k]) /\ \A j \in 1..(k - 1) : IsOk(items[j])

(* C12: Index command: when cli_main has returned the error of a source,   *)
(* that error is the first error item of the current source, no earlier    *)
(* source yielded an error, the documents handed to index are those of the *)
(* earlier sources and of the full batches of the current source before    *)
(* the batch holding the error, no index call is in progress, no later     *)
(* source was fetched; and after cli_main has returned an error no index   *)
(* call and no fetch is ever made.                                         *)
C12_AbortOnFirstError ==
    /\ []((dpc = "failed" /\ IsItemError(derr)) =>
            /\ dsrc \in 1..Len(dsources)
            /\ HasError(dsources[dsrc])
            /\ \A j \in 1..(dsrc - 1) : ~HasError(dsources[j])
            /\ LET items == dsources[dsrc]
                   p == FirstErrorAt(items)
                   whole == ((p - 1) \div DriverBatchSize) * DriverBatchSize IN
               /\ derr = items[p].err
               /\ IndexedOf({dsrc}) = SubSeq(items, 1, whole)
            /\ IndexedOf(1..(dsrc - 1)) = EmittedUpTo(dsrc - 1)
            /\ \A i \in 1..Len(indexed) : indexed[i].src <= dsrc
            /\ fetched = [j \in 1..dsrc |-> j]
            /\ inflight = 0)
    /\ [][dpc = "failed" =>
             /\ dpc' = "failed" /\ derr' = derr
             /\ indexed' = indexed /\ fetched' = fetched /\ inflight' = inflight]_vars

C12_Witness ==
    /\ dpc = "failed"
    /\ Len(dsources) = 2
    /\ dsrc = 1
    /\ derr = "io62"
    /\ Len(indexed) = 1
    /\ Len(indexed[1].docs) = DriverBatchSize
    /\ btask = "done"

(* C13: Index command: the documents handed to index so far are a prefix   *)
(* of the sources' emissions concatenated in configuration order, and all  *)
(* of them when cli_main returns Ok; at most one index call is in progress *)
(* and none when the next is made; and when the fetch of the next source   *)
(* is called no index call is in progress and every item of the current    *)
(* source has been handed to index.                                        *)
C13_SequentialInOrder ==
    /\ [](inflight <= 1)
    /\ [](IsPrefix(IndexedOf(1..Len(dsources)), EmittedUpTo(Len(dsources))))
    /\ [](dpc = "done" =>
            /\ IndexedOf(1..Len(dsources)) = EmittedUpTo(Len(dsources))
            /\ \A i \in 1..(Len(indexed) - 1) : indexed[i].src <= indexed[i + 1].src
            /\ fetched = [j \in 1..Len(dsources) |-> j])
    /\ [][indexed' # indexed => inflight = 0]_vars
    /\ [][fetched' # fetched =>
             /\ inflight = 0
             /\ fetched' = Append(fetched, Len(fetched) + 1)
             /\ IndexedOf(1..Len(fetched)) = EmittedUpTo(Len(fetched))]_vars

C13_Witness ==
    /\ dpc = "done"
    /\ Len(dsources) = 2
    /\ Len(dsources[1]) = DriverBatchSize + 2
    /\ Len(dsources[2]) = 3
    /\ Len(indexed) = 3
    /\ indexed[3].src = 2
(* C21: FileSystem source fetch: an error item received is the only one    *)
(* and the last item received; once the stream has failed and its error    *)
(* has been taken, nothing more is yielded or received and no further      *)
(* entry or root is walked; and what was received stays as it was.         *)
C21_FsErrorIsTerminal ==
    /\ [](\A i \in 1..Len(fsOut) : IsErr(fsOut[i]) => i = Len(fsOut))
    /\ []((fsState = "failed" /\ fsYield = <<>>) =>
            (fsOut # <<>> /\ IsErr(fsOut[Len(fsOut)])))
    /\ [][(fsState = "failed" /\ fsYield = <<>>) =>
             <<fsOut', fsYield', fsRoot', fsStack', fsState'>>
                 = <<fsOut, fsYield, fsRoot, fsStack, fsState>>]_vars
    /\ [][IsPrefix(fsOut, fsOut')]_vars

C21_Witness ==
    /\ fsState = "failed"
    /\ fsYield = <<>>
    /\ Len(fsOut) = 2
    /\ IsOk(fsOut[1])
    /\ fsOut[2] = Err("stream did not contain valid UTF-8")
    /\ fsStack # <<>>
    /\ fsRoot < Len(fsPaths)

(* C22: Document identity: no two Documents received from one fetch have   *)
(* the same id, and the source of every Document received is the           *)
(* configured source identifier.                                           *)
C22_UniqueIds ==
    /\ \A i \in 1..Len(fsOut) : \A j \in 1..Len(fsOut) :
          (i # j /\ IsOk(fsOut[i]) /\ IsOk(fsOut[j])) => fsOut[i].ok.id # fsOut[j].ok.id
    /\ \A i \in 1..Len(fsOut) : IsOk(fsOut[i]) => fsOut[i].ok.source = fsSourceId
(* The results as a bag of stored documents.                               *)
ResultBag ==
    [d \in TantivyDocs |->
        Cardinality({i \in 1..Len(results) : results[i] = Ok(tantivy_doc_to_doks(d))})]

(* C23 as stated: every Document among the results was given to an index   *)
(* call that had committed and returned when the reader was last           *)
(* refreshed: the documents of a call that has not yet committed are not   *)
(* in the results.                                                         *)
C23_OnlyCommittedCalls ==
    sended =>
        \A d \in IndexedDocuments :
            Found(Fields(d)) <= GivenBy(visible, Fields(d))

(* C23, amended: the results are documents of the searcher taken when the  *)
(* search was called; that searcher is the reader's snapshot, which only a *)
(* refresh changes, to what is committed then; so no document that is not  *)
(* committed, or was committed after the last refresh, is in the results.  *)
C23_SearchFreshness ==
    /\ [](spc \notin {"off", "idle"} =>
            /\ SubBag(ResultBag, searcher)
            /\ SubBag(searcher, snapshot))
    /\ [](spc # "off" => SubBag(snapshot, committed))
    /\ [][snapshot' # snapshot => snapshot' = committed]_vars
    /\ [][searcher' # searcher => searcher' = snapshot]_vars

C23_Witness ==
    /\ sended
    /\ query = "Computer"
    /\ Len(results) = 1
    /\ BagSize(searcher) = 2
    /\ BagSize(committed) = 3
    /\ BagSize(pending) = 0
    /\ snapshot = committed

(* The index call c has added some of its documents and not all.           *)
PartlyAdded(c) == 0 < ipos[c] /\ ipos[c] < Len(batches[c])

(* How many copies of the stored document t the calls of S were given.     *)
CopiesGiven(S, t) ==
    Cardinality({p \in Given(S) : tantivy_doc_to_doks(t) = [batches[p[1]][p[2]] EXCEPT !.metadata = {}]})

(* C27 as stated: no index call commits while another call has added some  *)
(* of its documents and not all (the commit would publish that part of the *)
(* other batch); and every document of a call that has returned is         *)
(* committed.                                                              *)
C27_BatchIsolation ==
    /\ [][\A e \in Calls :
             (ipc[e] = "commit" /\ ipc'[e] = "committed") =>
                 \A c \in Calls \ {e} : ~PartlyAdded(c)]_vars
    /\ [](\A t \in TantivyDocs :
            committed[t] >= CopiesGiven({c \in Calls : ipc[c] = "done"}, t))

(* C27, amended: every document of the calls that have returned is         *)
(* committed, and every document added by any call is committed or         *)
(* pending; a commit publishes whatever is pending, the part of another    *)
(* call's batch added so far included.                                     *)
C27_ReturnedBatchesCommitted ==
    /\ [](\A t \in TantivyDocs :
            committed[t] >= CopiesGiven({c \in Calls : ipc[c] = "done"}, t))
    /\ [][\A e \in Calls :
             (ipc[e] = "commit" /\ ipc'[e] = "committed") =>
                 (committed' = BagUnion(committed, pending) /\ pending' = EmptyBag)]_vars

C27_Witness ==
    \E c \in Calls : \E e \in Calls :
        /\ batches[c] = <<Document1, Document2>>
        /\ ipc[c] = "add"
        /\ ipos[c] = 1
        /\ ipc[e] = "done"
        /\ \A x \in Calls \ {c} : batches[x] = <<>>
        /\ \E t \in TantivyDocs : t.id = Document1.id /\ committed[t] = 1
(* The index of the repository a delivered Document was read from.         *)
RepositoryOf(doc) == CHOOSE i \in 1..Len(ghList) : FromRepository(doc, i)

(* C24: GithubSource.fetch: the Documents received are in the order of     *)
(* their repositories in the lister; a clone starts only when the stream   *)
(* of the repository before has ended with nothing left to send, for the   *)
(* next repository of the lister, whose temporary directory is then the    *)
(* only one; and at most one temporary clone directory exists at a time.   *)
C24_OneRepositoryAtATime ==
    /\ [](Cardinality(tmpdirs) <= 1)
    /\ [](\A k \in 1..Len(observed) : \A l \in 1..Len(observed) :
            (k < l /\ IsOk(observed[k]) /\ IsOk(observed[l])) =>
                RepositoryOf(observed[k].ok) <= RepositoryOf(observed[l].ok))
    /\ [][cloneAttempts' # cloneAttempts =>
             /\ fsYield = <<>> /\ fsState # "walking"
             /\ tmpdirs = {ghIdx}
             /\ \A j \in 1..Len(ghList) :
                   cloneAttempts'[j] # cloneAttempts[j] =>
                       (j = ghIdx /\ \A h \in (j + 1)..Len(ghList) : cloneAttempts[h] = 0)]_vars

C24_Witness ==
    /\ ended
    /\ Len(ghList) = 2
    /\ cloneAttempts = <<1, 1>>
    /\ Len(observed) = 4
    /\ \A k \in 1..4 : IsOk(observed[k])
    /\ RepositoryOf(observed[2].ok) = 1
    /\ RepositoryOf(observed[3].ok) = 2
    /\ tmpdirs = {}
(* The items of the first n answers of the server, in order.               *)
NodesOfPage(n) == IF n \in 1..Len(lserver) THEN lserver[n].nodes ELSE <<>>

RECURSIVE PageItems(_)
PageItems(n) ==
    IF n <= 0 THEN <<>>
    ELSE PageItems(n - 1) \o
         [k \in 1..Len(NodesOfPage(n)) |-> ParseRepositoryInfo(NodesOfPage(n)[k])]

IsFullPage(n) == n \in 1..Len(lserver) /\ lserver[n].kind = "page"

(* C25: GithubStarsLister.list: the first request carries the empty        *)
(* cursor; every later request carries the end cursor of the page received *)
(* just before, and that page reported hasNextPage = true (no request      *)
(* follows a page that reported false); when a request is sent every item  *)
(* of the pages before has been sent, in the server's order; and after a   *)
(* page that reported hasNextPage = false the sequence ends with exactly   *)
(* the items of the pages and no error from the closure.                   *)
C25_Pagination ==
    /\ [](lreq # <<>> => lreq[1] = "")
    /\ [](\A n \in 2..Len(lreq) :
            /\ IsFullPage(n - 1)
            /\ lserver[n - 1].hasNextPage
            /\ lreq[n] = EndCursor(n - 1))
    /\ [][lreq' # lreq => (lreq' = Append(lreq, lreq'[Len(lreq')])
                            /\ lsent = PageItems(Len(lreq)))]_vars
    /\ [](IsPrefix(lsent, PageItems(Len(lreq))))
    /\ []((ended /\ IsFullPage(Len(lreq)) /\ ~lserver[Len(lreq)].hasNextPage) =>
            (observed = PageItems(Len(lreq)) /\ futState = "ok" /\ futErr = "none"))

C25_Witness ==
    /\ ended
    /\ lreq = <<"", EndCursor(1)>>
    /\ Len(observed) = 4
    /\ \A k \in 1..4 : IsOk(observed[k])
    /\ futState = "ok"

(* C26: GithubStarsLister.list: an error is the last item of the sequence: *)
(* no item is sent after an error item, and no page is requested after it. *)
C26_ListerErrorIsTerminal ==
    /\ \A k \in 1..Len(observed) : IsErr(observed[k]) => k = Len(observed)
    /\ \A k \in 1..Len(lsent) : IsErr(lsent[k]) =>
           (k = Len(lsent) /\ k > Len(PageItems(Len(lreq) - 1)))
(* C28: TantivySearchEngine.search: the task sends at most TopK results,   *)
(* fewer than the channel holds, so a send into the open channel never     *)
(* waits for room; and the task, once spawned, terminates, whatever the    *)
(* consumer does (it may pull every result, none, or drop the stream).     *)
C28_SearchTaskTerminates ==
    /\ [](Len(results) + Len(schan) <= TopK)
    /\ [](spc \in {"send", "done", "failed"} =>
            Len(results) + Len(schan) + Len(topDocs) <= TopK)
    /\ []((spc = "send" /\ topDocs # <<>> /\ srxOpen) => Len(schan) < ResultsCapacity)
    /\ (spc = "collect") ~> (spc \in {"done", "failed"})

(* The task has ended after sending TopK results of which none was pulled; *)
(* the index holds more than TopK matches.                                 *)
C28_Witness ==
    /\ spc = "done"
    /\ srxOpen /\ ~sended
    /\ results = <<>>
    /\ Len(schan) = TopK
    /\ BagSize(Matches(query, searcher)) > TopK
(* C29: Index command: the batches handed to index are never taken back;   *)
(* when cli_main returns the error of a source, the index calls made       *)
(* before have all returned and stay as they are, and no Ok document of    *)
(* the batch that holds the error has been handed to index, then or later. *)
C29_PartialProgress ==
    /\ [][IsPrefix(indexed, indexed')]_vars
    /\ [][(dpc # "failed" /\ dpc' = "failed" /\ IsItemError(derr')) =>
             (indexed' = indexed /\ inflight = 0 /\ inflight' = 0)]_vars
    /\ []((dpc = "failed" /\ IsItemError(derr)) =>
            LET docs == groups[Len(groups)] IN
            /\ HasError(docs)
            /\ \A k \in 1..Len(docs) : IsOk(docs[k]) =>
                   \A i \in 1..Len(indexed) : \A m \in 1..Len(indexed[i].docs) :
                       indexed[i].docs[m] # docs[k])

(* The second source fails in its first batch, which holds five Ok items;  *)
(* batch of the first source stays indexed.                                *)
C29_Witness ==
    /\ dpc = "failed"
    /\ dsrc = 2
    /\ derr = "io45"
    /\ Len(indexed) = 1
    /\ indexed[1].src = 1
    /\ Len(indexed[1].docs) = 3
    /\ Len(SelectSeq(groups[Len(groups)], IsOk)) = 5

(* C30: batched after the consumer has dropped the stream: the channel     *)
(* holds nothing any more, a send or flush of the task loses its batch and *)
(* the task goes on as after a send that succeeded, the task is done only  *)
(* when the source has ended, and it does get there.                       *)
C30_TaskOutlivesConsumer ==
    /\ [](~brxOpen => bchan = <<>>)
    /\ [][(~brxOpen /\ btask \in {"send", "flush"} /\ btask' # btask) =>
             /\ batch' = <<>>
             /\ bchan' = <<>>
             /\ bpos' = bpos
             /\ btask' = IF btask = "send" THEN "pull" ELSE "done"]_vars
    /\ [](btask = "done" => bpos = Len(bsrc))
    /\ (~brxOpen) ~> (btask = "done" /\ bpos = Len(bsrc))

(* The consumer dropped the stream before it received a batch, and the     *)
(* task has pulled the four items of the source.                           *)
C30_Witness ==
    /\ ~brxOpen
    /\ groups = <<>>
    /\ bsize = 1
    /\ Len(bsrc) = 4
    /\ bpos = 4
    /\ btask = "done"
=============================================================================
